---- MODULE Spec2Model ----
(***************************************************************************)
(* Model of the outline-to-slide pipeline of zain-pptx-generator:          *)
(*   src/src/outline_parser.py  OutlineParser (parse_text,                 *)
(*                              validate_structure, split_for_agents)      *)
(*   src/src/ai_planner.py      SlidePlanner (_fallback_plan,              *)
(*                              analyze_content_depth)                     *)
(* A Python str is a sequence of one-character strings; a dict is a record *)
(* whose DOMAIN is the set of keys the code has set.                       *)
(***************************************************************************)
EXTENDS Integers, Sequences, FiniteSets, TLC

(***************************************************************************)
(* Characters.  The non-ASCII ones are named by their code point.          *)
(***************************************************************************)
LF == "\n"
\* U+2022 BULLET, the glyph as ai_planner.py spells it (bytes E2 80 A2)
BulletGlyph == "U+2022"
\* the three characters outline_parser.py spells instead (bytes C3 A2,
\* E2 82 AC, C2 A2): U+00E2, U+20AC, U+00A2
ACirc == "U+00E2"
Euro == "U+20AC"
Cent == "U+00A2"

Whitespace == {" ", "\t", "\r", LF}
Digits == {"0", "1", "2", "3", "4", "5", "6", "7", "8", "9"}
UpperCase == <<"A", "B", "C", "D", "E", "F", "G", "H", "I", "J", "K", "L", "M",
               "N", "O", "P", "Q", "R", "S", "T", "U", "V", "W", "X", "Y", "Z">>
LowerCase == <<"a", "b", "c", "d", "e", "f", "g", "h", "i", "j", "k", "l", "m",
               "n", "o", "p", "q", "r", "s", "t", "u", "v", "w", "x", "y", "z">>

(***************************************************************************)
(* str methods, computed as CPython computes them.                         *)
(***************************************************************************)
RECURSIVE LStripChars(_, _)
LStripChars(s, chars) ==
    IF s # <<>> /\ Head(s) \in chars THEN LStripChars(Tail(s), chars) ELSE s

RECURSIVE RStripChars(_, _)
RStripChars(s, chars) ==
    IF s # <<>> /\ s[Len(s)] \in chars
    THEN RStripChars(SubSeq(s, 1, Len(s) - 1), chars)
    ELSE s

Strip(s) == RStripChars(LStripChars(s, Whitespace), Whitespace)

StartsWith(s, prefix) ==
    Len(s) >= Len(prefix) /\ SubSeq(s, 1, Len(prefix)) = prefix

LowerChar(c) ==
    IF \E i \in 1..Len(UpperCase) : UpperCase[i] = c
    THEN LowerCase[CHOOSE i \in 1..Len(UpperCase) : UpperCase[i] = c]
    ELSE c

Lower(s) == [i \in 1..Len(s) |-> LowerChar(s[i])]

\* sub in s
Contains(s, sub) ==
    \E i \in 1..(Len(s) - Len(sub) + 1) : SubSeq(s, i, i + Len(sub) - 1) = sub

\* s.replace(old, new) for a non-empty old: leftmost, non-overlapping
RECURSIVE Replace(_, _, _)
Replace(s, old, new) ==
    IF s = <<>> THEN <<>>
    ELSE IF StartsWith(s, old)
         THEN new \o Replace(SubSeq(s, Len(old) + 1, Len(s)), old, new)
         ELSE <<Head(s)>> \o Replace(Tail(s), old, new)

\* s.split(sep) for a one-character sep: always at least one piece
RECURSIVE SplitFrom(_, _, _)
SplitFrom(s, sep, piece) ==
    IF s = <<>> THEN <<piece>>
    ELSE IF Head(s) = sep
         THEN <<piece>> \o SplitFrom(Tail(s), sep, <<>>)
         ELSE SplitFrom(Tail(s), sep, Append(piece, Head(s)))

Split(s, sep) == SplitFrom(s, sep, <<>>)

\* sep.join(parts)
RECURSIVE Join(_, _)
Join(sep, parts) ==
    IF parts = <<>> THEN <<>>
    ELSE IF Len(parts) = 1 THEN parts[1]
         ELSE parts[1] \o sep \o Join(sep, Tail(parts))

IsDigit(c) == c \in Digits

(***************************************************************************)
(* OutlineParser.parse_text: the per-line branches.  A parse state is the  *)
(* pair of the local current_slide and the list self.slides; None is the   *)
(* Python None.                                                            *)
(***************************************************************************)
None == [type |-> "None"]

Truthy(slide) == slide # None

ParseState(cur, sl) == [current_slide |-> cur, slides |-> sl]

\* if current_slide: self.slides.append(current_slide)
Finalize(cur, sl) == IF Truthy(cur) THEN Append(sl, cur) ELSE sl

IsTitleLine(line) ==
    StartsWith(line, <<"#", " ">>) \/ StartsWith(line, <<"#", "#", " ">>)

SectionWord == <<"s", "e", "c", "t", "i", "o", "n">>
SectionLabel == <<"S", "e", "c", "t", "i", "o", "n", ":">>

\* a variant whose divider test is line == '---'
IsSectionLine_ExactDivider(line) ==
    \/ line = <<"-", "-", "-">>
    \/ (StartsWith(line, <<"#", "#", " ">>) /\ Contains(Lower(line), SectionWord))

IsSectionLine(line) ==
    \/ StartsWith(line, <<"-", "-", "-">>)
    \/ (StartsWith(line, <<"#", "#", " ">>) /\ Contains(Lower(line), SectionWord))

IsBulletLine(line) ==
    StartsWith(line, <<"-">>) \/ StartsWith(line, <<ACirc, Euro, Cent>>)

BulletChars == {"-", ACirc, Euro, Cent}

TitleBranch(cur, sl, line) ==
    ParseState([type |-> "title",
                title |-> Strip(LStripChars(line, {"#"})),
                subtitle |-> <<>>,
                content |-> <<>>],
               Finalize(cur, sl))

SectionBranch(cur, sl, line) ==
    ParseState([type |-> "section",
                title |-> Strip(Replace(Strip(LStripChars(line, {"#"})),
                                        SectionLabel, <<>>)),
                content |-> <<>>],
               Finalize(cur, sl))

\* a variant that starts a new "Content" record when the current record is a
\* title or a section, instead of converting that record
BulletBranch_StartsNewRecord(cur, sl, line) ==
    LET fresh == [type |-> "content",
                  title |-> <<"C", "o", "n", "t", "e", "n", "t">>,
                  content |-> <<>>]
        started == IF cur = None \/ cur.type # "content" THEN fresh ELSE cur
        bullet == Strip(LStripChars(line, BulletChars))
    IN  ParseState([started EXCEPT !.content = Append(@, bullet)],
                   IF cur # None /\ cur.type # "content" THEN Append(sl, cur) ELSE sl)

\* a variant whose conversion forgets to set the type
BulletBranch_KeepsType(cur, sl, line) ==
    LET started == IF cur = None
                   THEN [type |-> "content",
                         title |-> <<"C", "o", "n", "t", "e", "n", "t">>,
                         content |-> <<>>]
                   ELSE cur
        bullet == Strip(LStripChars(line, BulletChars))
    IN  ParseState(IF started.type = "content"
                   THEN [started EXCEPT !.content = Append(@, bullet)]
                   ELSE [started EXCEPT !.content = <<bullet>>],
                   sl)

\* a variant that leaves out the .strip() after the lstrip of the markers
BulletBranch_NoStrip(cur, sl, line) ==
    LET started == IF cur = None
                   THEN [type |-> "content",
                         title |-> <<"C", "o", "n", "t", "e", "n", "t">>,
                         content |-> <<>>]
                   ELSE cur
        bullet == LStripChars(line, BulletChars)
    IN  ParseState(IF started.type = "content"
                   THEN [started EXCEPT !.content = Append(@, bullet)]
                   ELSE [started EXCEPT !.type = "content", !.content = <<bullet>>],
                   sl)

BulletBranch(cur, sl, line) ==
    LET started == IF cur = None
                   THEN [type |-> "content",
                         title |-> <<"C", "o", "n", "t", "e", "n", "t">>,
                         content |-> <<>>]
                   ELSE cur
        bullet == Strip(LStripChars(line, BulletChars))
    IN  ParseState(IF started.type = "content"
                   THEN [started EXCEPT !.content = Append(@, bullet)]
                   ELSE [started EXCEPT !.type = "content", !.content = <<bullet>>],
                   sl)

\* a variant without the "no subtitle yet" test
TextBranch_OverwritesSubtitle(cur, sl, line) ==
    IF Truthy(cur) /\ cur.type = "title"
    THEN ParseState([cur EXCEPT !.subtitle = line], sl)
    ELSE IF Truthy(cur) /\ cur.type = "content"
         THEN ParseState([cur EXCEPT !.content = Append(@, line)], sl)
         ELSE ParseState(cur, sl)

\* a variant that appends free text to the items of whatever record is
\* current, once a title has its subtitle
TextBranch_AnyRecord(cur, sl, line) ==
    IF Truthy(cur) /\ cur.type = "title" /\ cur.subtitle = <<>>
    THEN ParseState([cur EXCEPT !.subtitle = line], sl)
    ELSE IF Truthy(cur)
         THEN ParseState([cur EXCEPT !.content = Append(@, line)], sl)
         ELSE ParseState(cur, sl)

TextBranch(cur, sl, line) ==
    IF Truthy(cur) /\ cur.type = "title" /\ cur.subtitle = <<>>
    THEN ParseState([cur EXCEPT !.subtitle = line], sl)
    ELSE IF Truthy(cur) /\ cur.type = "content"
         THEN ParseState([cur EXCEPT !.content = Append(@, line)], sl)
         ELSE ParseState(cur, sl)

\* The subscripts current_slide[...] of the bullet branch and of the text
\* branch raise KeyError on a key the dict lacks.  BulletBranchRaises and
\* TextBranchRaises say whether the branch, run on cur, reads such a key
\* (assignments to a key never raise).
BulletBranchRaises(cur) ==
    LET started == IF cur = None
                   THEN [type |-> "content",
                         title |-> <<"C", "o", "n", "t", "e", "n", "t">>,
                         content |-> <<>>]
                   ELSE cur
    IN  \/ "type" \notin DOMAIN started
        \/ started.type = "content" /\ "content" \notin DOMAIN started

\* a variant whose first test reads current_slide['subtitle'] before it has
\* looked at the type
TextBranchRaises_SubtitleFirst(cur) ==
    Truthy(cur) /\ "subtitle" \notin DOMAIN cur

TextBranchRaises(cur) ==
    /\ Truthy(cur)
    /\ \/ "type" \notin DOMAIN cur
       \/ cur.type = "title" /\ "subtitle" \notin DOMAIN cur
       \/ cur.type = "content" /\ "content" \notin DOMAIN cur

\* one iteration of the for loop, on the raw (unstripped) line
ProcessLine(cur, sl, raw) ==
    LET line == Strip(raw)
    IN  IF line = <<>> THEN ParseState(cur, sl)
        ELSE IF IsTitleLine(line) THEN TitleBranch(cur, sl, line)
        ELSE IF IsSectionLine(line) THEN SectionBranch(cur, sl, line)
        ELSE IF IsBulletLine(line) THEN BulletBranch(cur, sl, line)
        ELSE TextBranch(cur, sl, line)

RECURSIVE ParseLoop(_, _, _)
ParseLoop(cur, sl, ls) ==
    IF ls = <<>> THEN Finalize(cur, sl)
    ELSE LET st == ProcessLine(cur, sl, Head(ls))
         IN  ParseLoop(st.current_slide, st.slides, Tail(ls))

\* lines = text.strip().split('\n')
TextLines(txt) == Split(Strip(txt), LF)

\* the whole of parse_text on a parser whose self.slides is sl
ParseText(sl, txt) == ParseLoop(None, sl, TextLines(txt))

(***************************************************************************)
(* OutlineParser.validate_structure and split_for_agents.                  *)
(***************************************************************************)
PlaceholderTitle ==
    [type |-> "title",
     title |-> <<"P", "r", "e", "s", "e", "n", "t", "a", "t", "i", "o", "n">>,
     subtitle |-> <<>>]

\* a variant that never inserts the placeholder
ValidateStructure_NoInsert(sl) ==
    IF sl = <<>> THEN [slides |-> sl, value |-> FALSE]
    ELSE [slides |-> sl, value |-> TRUE]

\* a variant that appends the placeholder instead of inserting it in front
ValidateStructure_Appends(sl) ==
    IF sl = <<>> THEN [slides |-> sl, value |-> FALSE]
    ELSE [slides |-> IF sl[1].type # "title" THEN Append(sl, PlaceholderTitle) ELSE sl,
          value |-> TRUE]

\* the list after the call and the value returned
ValidateStructure(sl) ==
    IF sl = <<>> THEN [slides |-> sl, value |-> FALSE]
    ELSE [slides |-> IF sl[1].type # "title" THEN <<PlaceholderTitle>> \o sl ELSE sl,
          value |-> TRUE]

Min(a, b) == IF a < b THEN a ELSE b

\* a variant whose upper index is inclusive
Slice_Inclusive(sl, lo, hi) == SubSeq(sl, lo + 1, Min(hi + 1, Len(sl)))

\* sl[lo:hi] for 0 <= lo <= hi
Slice(sl, lo, hi) == SubSeq(sl, lo + 1, Min(hi, Len(sl)))

\* the for loop over range(i, len(self.slides), batch_size)
RECURSIVE SplitFrom_i(_, _, _)
SplitFrom_i(sl, batch_size, i) ==
    IF i >= Len(sl) THEN <<>>
    ELSE <<[batch_id |-> i \div batch_size,
            start_index |-> i,
            slides |-> Slice(sl, i, i + batch_size)]>>
         \o SplitFrom_i(sl, batch_size, i + batch_size)

SplitForAgents(sl, batch_size) == SplitFrom_i(sl, batch_size, 0)

(***************************************************************************)
(* SlidePlanner._fallback_plan and analyze_content_depth.                  *)
(***************************************************************************)
\* slide.get('content', [])
GetContent(slide) == IF "content" \in DOMAIN slide THEN slide.content ELSE <<>>

HasDigit(s) == \E i \in 1..Len(s) : IsDigit(s[i])

HasChar(s, c) == \E i \in 1..Len(s) : s[i] = c

\* a variant whose two_column test is "5 or more"
ChooseLayout_FiveIsLong(slide) ==
    LET content_str == Join(<<" ">>, GetContent(slide))
        first == IF HasDigit(content_str) /\ Len(GetContent(slide)) <= 3
                 THEN IF \/ HasChar(content_str, "%")
                         \/ HasChar(content_str, "$")
                         \/ HasChar(content_str, "M")
                         \/ HasChar(content_str, "K")
                      THEN "big_number"
                      ELSE "bullets"
                 ELSE "bullets"
    IN  IF Len(GetContent(slide)) >= 5 THEN "two_column" ELSE first

\* the layout the loop body leaves in enhanced['layout'] for a content slide
ChooseLayout(slide) ==
    LET content_str == Join(<<" ">>, GetContent(slide))
        first == IF HasDigit(content_str) /\ Len(GetContent(slide)) <= 3
                 THEN IF \/ HasChar(content_str, "%")
                         \/ HasChar(content_str, "$")
                         \/ HasChar(content_str, "M")
                         \/ HasChar(content_str, "K")
                      THEN "big_number"
                      ELSE "bullets"
                 ELSE "bullets"
    IN  IF Len(GetContent(slide)) > 5 THEN "two_column" ELSE first

\* d[key] = value on a copy of the dict d
SetKey(d, key, value) ==
    [k \in DOMAIN d \cup {key} |-> IF k = key THEN value ELSE d[k]]

\* one iteration of the loop over basic_slides
EnhanceSlide(slide) ==
    LET laid == IF slide.type = "content"
                THEN SetKey(slide, "layout", ChooseLayout(slide))
                ELSE slide
    IN  IF slide.type = "title" THEN SetKey(laid, "gradient", "ultraviolet")
        ELSE IF slide.type = "section" THEN SetKey(laid, "gradient", "coraldawn")
        ELSE laid

\* parser = OutlineParser(); basic_slides = parser.parse_text(outline_text)
FallbackPlan(outline_text) ==
    LET basic_slides == ParseText(<<>>, outline_text)
    IN  [i \in 1..Len(basic_slides) |-> EnhanceSlide(basic_slides[i])]

IsAnalysisBullet(l) ==
    StartsWith(Strip(l), <<"-">>) \/ StartsWith(Strip(l), <<BulletGlyph>>)

RECURSIVE CountBullets(_)
CountBullets(ls) ==
    IF ls = <<>> THEN 0
    ELSE (IF IsAnalysisBullet(Head(ls)) THEN 1 ELSE 0) + CountBullets(Tail(ls))

Max(a, b) == IF a > b THEN a ELSE b

AnalyzeContentDepth(outline_text) ==
    LET ls == TextLines(outline_text)
    IN  [total_lines |-> Len(ls),
         bullet_count |-> CountBullets(ls),
         needs_expansion |-> CountBullets(ls) < 10,
         estimated_slides |-> Max(3, (CountBullets(ls) \div 4) + 1)]

(***************************************************************************)
(* The renderers.  A deck is the sequence of its slides; a slide is the    *)
(* record of what was put on it: its kind, its title text and, for a       *)
(* content slide, the paragraphs of its text boxes in the order they were  *)
(* written.                                                                *)
(***************************************************************************)
\* d.get(key, default)
Get(d, key, default) == IF key \in DOMAIN d THEN d[key] ELSE default

Bulleted(box, items) ==
    [i \in 1..Len(items) |-> [box |-> box, text |-> <<BulletGlyph, " ">> \o items[i]]]

RenderBullets(items) == Bulleted("content", items)

RenderTwoColumn(items) ==
    LET mid == Len(items) \div 2
        left_items == IF mid > 0 THEN SubSeq(items, 1, mid) ELSE items
        right_items == IF mid > 0 THEN SubSeq(items, mid + 1, Len(items)) ELSE <<>>
    IN  Bulleted("left", left_items) \o Bulleted("right", right_items)

RenderBigNumber(items) ==
    IF items = <<>> THEN <<>>
    ELSE <<[box |-> "number", text |-> items[1]]>>
         \o Bulleted("context", Tail(items))

\* the attribution is led by an em dash (U+2014) and a space
RenderQuote(items) ==
    IF items = <<>> THEN <<>>
    ELSE <<[box |-> "quote", text |-> <<"\"">> \o items[1] \o <<"\"">>]>>
         \o (IF Len(items) > 1
             THEN <<[box |-> "attribution", text |-> <<"U+2014", " ">> \o items[2]]>>
             ELSE <<>>)

RenderContentSlide(title, content_items, layout) ==
    [kind |-> "content",
     title |-> title,
     paragraphs |-> IF layout = "bullets" THEN RenderBullets(content_items)
                    ELSE IF layout = "two_column" THEN RenderTwoColumn(content_items)
                    ELSE IF layout = "big_number" THEN RenderBigNumber(content_items)
                    ELSE IF layout = "quote" THEN RenderQuote(content_items)
                    ELSE <<>>]

RenderTitleSlide(title, subtitle, gradient) ==
    [kind |-> "title", title |-> title, subtitle |-> subtitle, gradient |-> gradient]

RenderSectionSlide(title, gradient) ==
    [kind |-> "section", title |-> title, gradient |-> gradient]

\* the slide PPTXRenderer.render_presentation adds for one record: it is
\* added before the type is looked at, and stays blank for an unknown type
RenderedSlide(slide_data) ==
    LET slide_type == Get(slide_data, "type", "content")
    IN  IF slide_type = "title"
        THEN RenderTitleSlide(Get(slide_data, "title", <<>>),
                              Get(slide_data, "subtitle", <<>>),
                              Get(slide_data, "gradient", "ultraviolet"))
        ELSE IF slide_type = "section"
        THEN RenderSectionSlide(Get(slide_data, "title", <<>>),
                                Get(slide_data, "gradient", "coraldawn"))
        ELSE IF slide_type = "content"
        THEN RenderContentSlide(Get(slide_data, "title", <<>>),
                                Get(slide_data, "content", <<>>),
                                Get(slide_data, "layout", "bullets"))
        ELSE [kind |-> "blank"]

\* the deck PPTXRenderer.render_presentation saves
RenderPresentation(ai_slides_data) ==
    [i \in 1..Len(ai_slides_data) |-> RenderedSlide(ai_slides_data[i])]

\* the slides PPTXAssembler.create_presentation adds for one record: the
\* builder adds the slide inside the branch of the record's type
AssembledSlides(slide_data) ==
    LET slide_type == Get(slide_data, "type", "content")
        title == Get(slide_data, "title", <<>>)
    IN  IF slide_type = "title"
        THEN <<RenderTitleSlide(title, Get(slide_data, "subtitle", <<>>),
                                Get(slide_data, "gradient", "ultraviolet"))>>
        ELSE IF slide_type = "section"
        THEN <<RenderSectionSlide(title, Get(slide_data, "gradient", "coraldawn"))>>
        ELSE IF slide_type = "content"
        THEN <<[kind |-> "content",
                title |-> title,
                paragraphs |-> Bulleted("content", Get(slide_data, "content", <<>>))]>>
        ELSE <<>>

\* a variant without the section branch
CreatePresentation_NoSectionBranch(slides_data) ==
    LET RECURSIVE From(_)
        From(sl) == IF sl = <<>> THEN <<>>
                    ELSE (IF Get(Head(sl), "type", "content") = "section"
                          THEN <<>>
                          ELSE AssembledSlides(Head(sl))) \o From(Tail(sl))
    IN  From(slides_data)

\* the deck PPTXAssembler.create_presentation saves
CreatePresentation(slides_data) ==
    LET RECURSIVE From(_)
        From(sl) == IF sl = <<>> THEN <<>>
                    ELSE AssembledSlides(Head(sl)) \o From(Tail(sl))
    IN  From(slides_data)

(***************************************************************************)
(* SlideAgentSpawner, SlideAgentCoordinator and SlidePlanner.plan_slides.  *)
(***************************************************************************)
\* f"{slide_index:03d}"
ZeroPad3(n) ==
    LET digit == <<"0", "1", "2", "3", "4", "5", "6", "7", "8", "9">>
        RECURSIVE Decimal(_)
        Decimal(k) == IF k < 10 THEN <<digit[k + 1]>>
                      ELSE Decimal(k \div 10) \o <<digit[(k % 10) + 1]>>
        RECURSIVE Pad(_)
        Pad(ds) == IF Len(ds) >= 3 THEN ds ELSE Pad(<<"0">> \o ds)
    IN  Pad(Decimal(n))

\* Path(output_dir) / f"slide_{slide_index:03d}.json"
OutputFile(output_dir, slide_index) ==
    <<output_dir, "/", "slide_">> \o ZeroPad3(slide_index) \o <<".json">>

\* what create_slide_generation_prompt puts into the prompt text
SlideGenerationPrompt(slide_data, slide_index, total_slides) ==
    [number |-> slide_index + 1,
     total |-> total_slides,
     slide_type |-> Get(slide_data, "type", "content"),
     title |-> Get(slide_data, "title", <<>>)]

\* a variant that marks the job as started
SpawnSlideAgent_StartsJob(jbs, slide_data, slide_index, total_slides, output_dir, j) ==
    [jobs |-> SetKey(jbs, j, [slide_index |-> slide_index,
                              status |-> "running",
                              output_file |-> OutputFile(output_dir, slide_index)]),
     job_id |-> j,
     prompt |-> SlideGenerationPrompt(slide_data, slide_index, total_slides),
     output_file |-> OutputFile(output_dir, slide_index)]

\* spawn_slide_agent on a spawner whose self.jobs is jbs, drawing job id j
SpawnSlideAgent(jbs, slide_data, slide_index, total_slides, output_dir, j) ==
    [jobs |-> SetKey(jbs, j, [slide_index |-> slide_index,
                              status |-> "pending",
                              output_file |-> OutputFile(output_dir, slide_index)]),
     job_id |-> j,
     prompt |-> SlideGenerationPrompt(slide_data, slide_index, total_slides),
     output_file |-> OutputFile(output_dir, slide_index)]

\* a variant that numbers the slides of each batch from 0
SpawnBatch_IndexInBatch(jbs, slides_batch, start_index, total_slides, output_dir, ids) ==
    LET RECURSIVE Loop(_, _, _)
        Loop(i, js, batch_jobs) ==
            IF i > Len(slides_batch) THEN [jobs |-> js, batch_jobs |-> batch_jobs]
            ELSE LET spawned == SpawnSlideAgent(js, slides_batch[i], i - 1,
                                                total_slides, output_dir, ids[i])
                 IN  Loop(i + 1, spawned.jobs,
                          Append(batch_jobs,
                                 [job_id |-> spawned.job_id,
                                  slide_index |-> i - 1,
                                  prompt |-> spawned.prompt,
                                  output_file |-> spawned.output_file]))
    IN  Loop(1, jbs, <<>>)

\* spawn_batch; ids are the job ids its calls draw, in order
SpawnBatch(jbs, slides_batch, start_index, total_slides, output_dir, ids) ==
    LET RECURSIVE Loop(_, _, _)
        Loop(i, js, batch_jobs) ==
            IF i > Len(slides_batch) THEN [jobs |-> js, batch_jobs |-> batch_jobs]
            ELSE LET spawned == SpawnSlideAgent(js, slides_batch[i],
                                                start_index + (i - 1),
                                                total_slides, output_dir, ids[i])
                 IN  Loop(i + 1, spawned.jobs,
                          Append(batch_jobs,
                                 [job_id |-> spawned.job_id,
                                  slide_index |-> start_index + (i - 1),
                                  prompt |-> spawned.prompt,
                                  output_file |-> spawned.output_file]))
    IN  Loop(1, jbs, <<>>)

\* coordinate_generation over a parser whose self.slides is sl
CoordinateGeneration(jbs, sl, output_dir, batch_size, ids) ==
    LET batches == SplitForAgents(sl, batch_size)
        total_slides == Len(sl)
        RECURSIVE Loop(_, _, _, _)
        Loop(b, js, all_jobs, left) ==
            IF b > Len(batches)
            THEN [jobs |-> js,
                  returned |-> [total_slides |-> total_slides,
                                batches |-> Len(batches),
                                jobs |-> all_jobs,
                                output_dir |-> output_dir]]
            ELSE LET n == Len(batches[b].slides)
                     done == SpawnBatch(js, batches[b].slides,
                                        batches[b].start_index, total_slides,
                                        output_dir, SubSeq(left, 1, n))
                 IN  Loop(b + 1, done.jobs, all_jobs \o done.batch_jobs,
                          SubSeq(left, n + 1, Len(left)))
    IN  Loop(1, jbs, <<>>, ids)

\* sorted(job_results, key=lambda x: x['slide_index']): a stable sort
SortedBySlideIndex(job_results) ==
    LET RECURSIVE Insert(_, _)
        Insert(sorted, r) ==
            IF sorted = <<>> THEN <<r>>
            ELSE IF sorted[Len(sorted)].slide_index <= r.slide_index
            THEN Append(sorted, r)
            ELSE Append(Insert(SubSeq(sorted, 1, Len(sorted) - 1), r),
                        sorted[Len(sorted)])
        RECURSIVE Sort(_, _)
        Sort(sorted, rest) ==
            IF rest = <<>> THEN sorted ELSE Sort(Insert(sorted, Head(rest)), Tail(rest))
    IN  Sort(<<>>, job_results)

\* a variant that takes the results in the order they were supplied
CollectResults_Unsorted(job_results) ==
    LET kept == SelectSeq(job_results, LAMBDA r : "generated_slide" \in DOMAIN r)
    IN  [i \in 1..Len(kept) |-> kept[i].generated_slide]

CollectResults(job_results) ==
    LET kept == SelectSeq(SortedBySlideIndex(job_results),
                          LAMBDA r : "generated_slide" \in DOMAIN r)
    IN  [i \in 1..Len(kept) |-> kept[i].generated_slide]

\* a variant that hands the analysis prompt to the spawn function
PlanSlides_Spawns(outline_text, spawn_agent) ==
    IF spawn_agent = None
    THEN [returned |-> FallbackPlan(outline_text), spawn_calls |-> <<>>]
    ELSE [returned |-> FallbackPlan(outline_text),
          spawn_calls |-> <<[prompt_for |-> outline_text]>>]

\* plan_slides of a SlidePlanner built with spawn_agent (awaited): what it
\* returns and the calls it makes to spawn_agent
PlanSlides(outline_text, spawn_agent) ==
    IF spawn_agent = None
    THEN [returned |-> FallbackPlan(outline_text), spawn_calls |-> <<>>]
    ELSE LET prompt == [prompt_for |-> outline_text]
         IN  [returned |-> FallbackPlan(outline_text), spawn_calls |-> <<>>]

(***************************************************************************)
(* AgentOrchestrator of the chat API.                                      *)
(***************************************************************************)
\* process_message: the intent the substring tests find in the message
ProcessMessage(message) ==
    LET message_lower == Lower(message)
        HasAny(words) == \E w \in words : Contains(message_lower, w)
    IN  IF /\ HasAny({<<"c", "r", "e", "a", "t", "e">>,
                   <<"g", "e", "n", "e", "r", "a", "t", "e">>,
                   <<"m", "a", "k", "e">>, <<"b", "u", "i", "l", "d">>})
           /\ HasAny({<<"p", "r", "e", "s", "e", "n", "t", "a", "t", "i", "o", "n">>,
                   <<"s", "l", "i", "d", "e", "s">>})
        THEN [type |-> "tool_call", tool |-> "analyze_content",
              parameters |-> [content |-> message, audience |-> "business",
                              goal |-> "create_presentation"]]
        ELSE IF HasAny({<<"c", "h", "a", "r", "t">>, <<"g", "r", "a", "p", "h">>,
                     <<"v", "i", "s", "u", "a", "l", "i", "z", "a", "t", "i", "o", "n">>,
                     <<"p", "l", "o", "t">>})
        THEN [type |-> "tool_call", tool |-> "generate_chart",
              parameters |-> [chart_type |-> "bar", title |-> "Sample Chart"]]
        ELSE IF HasAny({<<"a", "n", "a", "l", "y", "z", "e">>,
                     <<"s", "t", "r", "u", "c", "t", "u", "r", "e">>,
                     <<"p", "l", "a", "n">>})
        THEN [type |-> "tool_call", tool |-> "analyze_content",
              parameters |-> [content |-> message, audience |-> "executive",
                              goal |-> "inform"]]
        ELSE [type |-> "message"]

\* _create_slide
CreateSlide(params) ==
    [type |-> Get(params, "type", "content"),
     title |-> Get(params, "title",
                   <<"S", "l", "i", "d", "e", " ", "T", "i", "t", "l", "e">>),
     content |-> Get(params, "content", <<>>),
     layout |-> Get(params, "layout", "bullets"),
     gradient |-> Get(params, "gradient",
                      IF "type" \in DOMAIN params /\ params.type = "title"
                      THEN "ultraviolet" ELSE "coraldawn")]

\* the loop of _render_presentation over the slides it is to render
SetGradients(sl, params) ==
    [i \in 1..Len(sl) |->
        IF sl[i].type = "title"
        THEN SetKey(sl[i], "gradient", Get(params, "title_gradient", "ultraviolet"))
        ELSE IF sl[i].type = "section"
        THEN SetKey(sl[i], "gradient", Get(params, "section_gradient", "coraldawn"))
        ELSE sl[i]]

\* f"zain_chat_{self.conversation_id}.pptx"
ChatFilename(c) == <<"zain_chat_", c, ".pptx">>

\* a variant of execute_tool whose render_presentation works on copies of the
\* conversation's slides
ExecuteTool_RendersCopies(sl, c, tool_name, parameters, chart_id) ==
    IF tool_name = "create_slide"
    THEN [slides |-> Append(sl, CreateSlide(parameters)),
          raised |-> "type" \notin DOMAIN parameters,
          result |-> [type |-> "tool_result", tool |-> tool_name,
                      created |-> Get(parameters, "type", "KeyError"),
                      title |-> Get(parameters, "title", "Untitled"),
                      slide |-> [ref |-> Len(sl) + 1]],
          rendered |-> <<>>]
    ELSE IF tool_name = "generate_chart"
    THEN [slides |-> sl,
          raised |-> ~({"chart_type", "title"} \subseteq DOMAIN parameters),
          result |-> [type |-> "tool_result", tool |-> tool_name,
                      chart_path |-> <<"/charts/chart_", chart_id, ".png">>],
          rendered |-> <<>>]
    ELSE IF tool_name = "analyze_content"
    THEN [slides |-> sl,
          raised |-> FALSE,
          result |-> [type |-> "tool_result", tool |-> tool_name,
                      result |-> "Analysis complete"],
          rendered |-> <<>>]
    ELSE IF tool_name = "render_presentation"
    THEN LET own == "slides" \notin DOMAIN parameters
             given == IF own THEN sl ELSE parameters.slides
             raises == \E i \in 1..Len(given) : "type" \notin DOMAIN given[i]
         IN  [slides |-> sl,
              raised |-> raises,
              result |-> [type |-> "tool_result", tool |-> tool_name,
                          download_url |-> <<"/download/", ChatFilename(c)>>],
              rendered |-> IF raises THEN <<>>
                           ELSE <<RenderPresentation(SetGradients(given, parameters))>>]
    ELSE [slides |-> sl,
          raised |-> FALSE,
          result |-> [type |-> "error", unknown_tool |-> tool_name],
          rendered |-> <<>>]

\* AgentOrchestrator.execute_tool on an orchestrator of conversation c whose
\* self.slides is sl: the list afterwards, whether the call raised, the
\* result it returns if it did not, and the deck it saved if it rendered.
\* The 'slide' of a create_slide result is the dict that was appended, given
\* here as its place in the list.
ExecuteTool(sl, c, tool_name, parameters, chart_id) ==
    IF tool_name = "create_slide"
    THEN [slides |-> Append(sl, CreateSlide(parameters)),
          raised |-> "type" \notin DOMAIN parameters,
          result |-> [type |-> "tool_result", tool |-> tool_name,
                      created |-> Get(parameters, "type", "KeyError"),
                      title |-> Get(parameters, "title", "Untitled"),
                      slide |-> [ref |-> Len(sl) + 1]],
          rendered |-> <<>>]
    ELSE IF tool_name = "generate_chart"
    THEN [slides |-> sl,
          raised |-> ~({"chart_type", "title"} \subseteq DOMAIN parameters),
          result |-> [type |-> "tool_result", tool |-> tool_name,
                      chart_path |-> <<"/charts/chart_", chart_id, ".png">>],
          rendered |-> <<>>]
    ELSE IF tool_name = "analyze_content"
    THEN [slides |-> sl,
          raised |-> FALSE,
          result |-> [type |-> "tool_result", tool |-> tool_name,
                      result |-> "Analysis complete"],
          rendered |-> <<>>]
    ELSE IF tool_name = "render_presentation"
    THEN LET own == "slides" \notin DOMAIN parameters
             given == IF own THEN sl ELSE parameters.slides
             raises == \E i \in 1..Len(given) : "type" \notin DOMAIN given[i]
         IN  [slides |-> IF own THEN SetGradients(sl, parameters) ELSE sl,
              raised |-> raises,
              result |-> [type |-> "tool_result", tool |-> tool_name,
                          download_url |-> <<"/download/", ChatFilename(c)>>],
              rendered |-> IF raises THEN <<>>
                           ELSE <<RenderPresentation(SetGradients(given, parameters))>>]
    ELSE [slides |-> sl,
          raised |-> FALSE,
          result |-> [type |-> "error", unknown_tool |-> tool_name],
          rendered |-> <<>>]

(***************************************************************************)
(* generate_presentation of generate.py.                                   *)
(***************************************************************************)
\* a variant whose agent branch renders the first batch it has spawned
GeneratePresentation_RendersFirstBatch(outline_text, use_agents, ids) ==
    LET slides_data == ValidateStructure(ParseText(<<>>, outline_text)).slides
    IN  IF use_agents /\ Len(slides_data) > 5
        THEN LET plan == CoordinateGeneration(<<>>, slides_data,
                                              "generated_slides", 3, ids)
             IN  [slides_data |-> SubSeq(slides_data, 1, 3),
                  plan |-> plan.returned,
                  jobs |-> plan.jobs,
                  deck |-> CreatePresentation(SubSeq(slides_data, 1, 3))]
        ELSE [slides_data |-> slides_data,
              plan |-> None,
              jobs |-> <<>>,
              deck |-> CreatePresentation(slides_data)]

\* generate_presentation(outline_text, output_path, use_agents): the list
\* handed to create_presentation, the plan of the agent branch, the jobs of
\* its spawner and the deck saved; ids are the job ids the spawner draws.
\* slides_data is the parser's own list, so it shows what validate_structure
\* inserted.
GeneratePresentation(outline_text, use_agents, ids) ==
    LET slides_data == ValidateStructure(ParseText(<<>>, outline_text)).slides
    IN  IF use_agents /\ Len(slides_data) > 5
        THEN LET plan == CoordinateGeneration(<<>>, slides_data,
                                              "generated_slides", 3, ids)
             IN  [slides_data |-> slides_data,
                  plan |-> plan.returned,
                  jobs |-> plan.jobs,
                  deck |-> CreatePresentation(slides_data)]
        ELSE [slides_data |-> slides_data,
              plan |-> None,
              jobs |-> <<>>,
              deck |-> CreatePresentation(slides_data)]

(***************************************************************************)
(* Inputs.  An outline is up to MaxLines lines of the vocabulary below,    *)
(* joined by newlines.                                                     *)
(***************************************************************************)
MaxLines == 3
MaxBatchSize == 3

EmptyLine == <<>>
HeadingLine == <<"#", " ", "A">>
SectionHeadingLine ==
    <<"#", "#", " ", "S", "e", "c", "t", "i", "o", "n", ":", " ", "B">>
DividerLine == <<"-", "-", "-">>
HyphenBulletLine == <<"-", " ", "a">>
PaddedStatBulletLine == <<" ", "-", "5", "%", " ">>
TwoDashBulletLine == <<"-", "-", "b">>
GlyphBulletLine == <<BulletGlyph, " ", "a">>
MojibakeBulletLine == <<ACirc, Euro, Cent, " ", "a">>
FreeTextLine == <<"t">>

SampleLines ==
    {EmptyLine, HeadingLine, SectionHeadingLine, DividerLine, HyphenBulletLine,
     PaddedStatBulletLine, TwoDashBulletLine, GlyphBulletLine,
     MojibakeBulletLine, FreeTextLine}

\* the outlines of exactly n lines (the empty outline is the one empty line)
Texts(n) == {Join(<<LF>>, ls) : ls \in [1..n -> SampleLines]}

\* the end-to-end outline of the specification's scenario
Q1Outline ==
    <<"#", " ", "Q", "1", " ", "R", "e", "v", "i", "e", "w", LF, "G", "r",
      "o", "w", "t", "h", " ", "s", "t", "o", "r", "y", LF, LF, "-", " ",
      "R", "e", "v", "e", "n", "u", "e", " ", "u", "p", " ", "1", "5", "%",
      LF, "-", " ", "C", "o", "s", "t", "s", " ", "d", "o", "w", "n", " ",
      "8", "%">>

\* bullet lines that differ in what the layout heuristic looks at
MaxStatItems == 4
MaxItems == 7

StatBulletLines ==
    {<<"-", " ", "a">>, <<"-", " ", "5">>, <<"-", " ", "%">>,
     <<"-", " ", "$">>, <<"-", " ", "M">>, <<"-", " ", "K">>}
LongBulletLines == {<<"-", " ", "a">>, <<"-", "5", "%">>}
\* bullet lines led by either marker
MixedBulletLines == {HyphenBulletLine, GlyphBulletLine}

\* an optional heading followed by n bullet lines of the given vocabulary
BulletOutlines(n, vocabulary) ==
    {Join(<<LF>>, head \o bullets) :
        head \in {<<>>, <<HeadingLine>>}, bullets \in [1..n -> vocabulary]}

PlanOutlines ==
    {Q1Outline}
    \cup UNION {Texts(n) : n \in 1..MaxLines}
    \cup UNION {BulletOutlines(n, StatBulletLines) : n \in 1..MaxStatItems}
    \cup UNION {BulletOutlines(n, LongBulletLines) : n \in 1..MaxItems}
    \cup UNION {BulletOutlines(n, MixedBulletLines) : n \in 1..MaxItems}

(***************************************************************************)
(* One OutlineParser object and its caller.                                *)
(*   slides         self.slides                                            *)
(*   lines          the lines the running parse_text has still to read     *)
(*   current_slide  the local current_slide of the running parse_text      *)
(*   pc             "idle" between calls, "parse_text" inside the loop     *)
(*   text           the argument of the latest parse_text call             *)
(*   entry_slides   self.slides when that call began                       *)
(*   ret            the latest call and the value it returned              *)
(*   consumed       lines handed to parse_text so far (bounded by MaxLines)*)
(* and one SlidePlanner and its caller.                                    *)
(*   plan_text      the argument of the latest planner call                *)
(*   plan_ret       the latest planner call and the value it returned      *)
(* One web shell serving /generate and /status.                            *)
(*   request            the form of the /generate request                  *)
(*   web_pc             where its handler stands                           *)
(*   job_id             the job id the handler drew ("none" before that)   *)
(*   slides_data        the handler's local slides_data                    *)
(*   generation_status  the dict generation_status                         *)
(*   generated          the files of the output folder, by job id          *)
(*   response           the response to the /generate request              *)
(*   status_reply       the response to the latest /status request         *)
(* One SlideAgentSpawner with its SlideAgentCoordinator, and one renderer. *)
(*   jobs               self.jobs of the spawner                           *)
(*   agent_ret          the latest spawner or coordinator call and result  *)
(*   render_ret         the latest render_content_slide call and its slide *)
(* The chat API.                                                           *)
(*   conversations      the dict conversations: the messages and the       *)
(*                      orchestrator's slides of each conversation         *)
(*   chat_reply         the response to the latest chat request            *)
(***************************************************************************)
VARIABLES slides, lines, current_slide, pc, text, entry_slides, ret, consumed,
          plan_text, plan_ret,
          request, web_pc, job_id, slides_data, generation_status, generated,
          response, status_reply,
          jobs, agent_ret,
          render_ret,
          conversations, chat_reply

parser_vars ==
    <<slides, lines, current_slide, pc, text, entry_slides, ret, consumed>>
planner_vars == <<plan_text, plan_ret>>
web_vars ==
    <<request, web_pc, job_id, slides_data, generation_status, generated,
      response, status_reply>>
agent_vars == <<jobs, agent_ret>>
render_vars == <<render_ret>>
chat_vars == <<conversations, chat_reply>>
vars ==
    <<parser_vars, planner_vars, web_vars, agent_vars, render_vars, chat_vars>>

NoReturn == [op |-> "none"]
\* parse_text returns the list object self.slides itself
SlidesRef == "self.slides"

NoRequest == [shell |-> "none"]
NoResponse == [code |-> 0]

\* the web shell has served nothing, and its output folder is empty
WebAtRest ==
    /\ request = NoRequest
    /\ web_pc = "idle"
    /\ job_id = "none"
    /\ slides_data = <<>>
    /\ generation_status = <<>>
    /\ generated = <<>>
    /\ response = NoResponse
    /\ status_reply = NoResponse

\* a spawner without jobs; no spawner, coordinator or renderer call yet;
\* the chat API holds no conversation
AgentsAtRest ==
    /\ jobs = <<>>
    /\ agent_ret = [op |-> "__init__"]
    /\ render_ret = [op |-> "__init__"]
    /\ conversations = <<>>
    /\ chat_reply = NoResponse

Init ==
    /\ slides = <<>>
    /\ lines = <<>>
    /\ current_slide = None
    /\ pc = "idle"
    /\ text = <<>>
    /\ entry_slides = <<>>
    /\ ret = [op |-> "__init__"]
    /\ consumed = 0
    /\ plan_text = <<>>
    /\ plan_ret = [op |-> "__init__"]
    /\ WebAtRest
    /\ AgentsAtRest

\* a variant that starts every parse from an empty list
CallParseText_Clears(txt) ==
    /\ pc = "idle"
    /\ consumed' = consumed + Len(Split(txt, LF))
    /\ lines' = TextLines(txt)
    /\ current_slide' = None
    /\ pc' = "parse_text"
    /\ text' = txt
    /\ entry_slides' = slides
    /\ ret' = NoReturn
    /\ slides' = <<>>
    /\ UNCHANGED <<planner_vars, web_vars, agent_vars, render_vars, chat_vars>>

CallParseText(txt) ==
    /\ pc = "idle"
    /\ consumed' = consumed + Len(Split(txt, LF))
    /\ lines' = TextLines(txt)
    /\ current_slide' = None
    /\ pc' = "parse_text"
    /\ text' = txt
    /\ entry_slides' = slides
    /\ ret' = NoReturn
    /\ UNCHANGED <<slides, planner_vars, web_vars, agent_vars, render_vars, chat_vars>>

InLoop == pc = "parse_text" /\ lines # <<>>

CurrentLine == Strip(Head(lines))

LoopStep(st) ==
    /\ current_slide' = st.current_slide
    /\ slides' = st.slides
    /\ lines' = Tail(lines)
    /\ UNCHANGED <<pc, text, entry_slides, ret, consumed, planner_vars,
                   web_vars, agent_vars, render_vars, chat_vars>>

SkipBlankLine ==
    /\ InLoop
    /\ CurrentLine = <<>>
    /\ LoopStep(ParseState(current_slide, slides))

StartTitle ==
    /\ InLoop
    /\ CurrentLine # <<>>
    /\ IsTitleLine(CurrentLine)
    /\ LoopStep(TitleBranch(current_slide, slides, CurrentLine))

StartSection ==
    /\ InLoop
    /\ CurrentLine # <<>>
    /\ ~IsTitleLine(CurrentLine)
    /\ IsSectionLine(CurrentLine)
    /\ LoopStep(SectionBranch(current_slide, slides, CurrentLine))

AddBullet ==
    /\ InLoop
    /\ CurrentLine # <<>>
    /\ ~IsTitleLine(CurrentLine)
    /\ ~IsSectionLine(CurrentLine)
    /\ IsBulletLine(CurrentLine)
    /\ LoopStep(BulletBranch(current_slide, slides, CurrentLine))

AddText ==
    /\ InLoop
    /\ CurrentLine # <<>>
    /\ ~IsTitleLine(CurrentLine)
    /\ ~IsSectionLine(CurrentLine)
    /\ ~IsBulletLine(CurrentLine)
    /\ LoopStep(TextBranch(current_slide, slides, CurrentLine))

ReturnFromParseText ==
    /\ pc = "parse_text"
    /\ lines = <<>>
    /\ slides' = Finalize(current_slide, slides)
    /\ current_slide' = None
    /\ pc' = "idle"
    /\ ret' = [op |-> "parse_text", returned |-> SlidesRef]
    /\ UNCHANGED <<lines, text, entry_slides, consumed, planner_vars,
                   web_vars, agent_vars, render_vars, chat_vars>>

CallValidateStructure ==
    /\ pc = "idle"
    /\ slides' = ValidateStructure(slides).slides
    /\ ret' = [op |-> "validate_structure",
               value |-> ValidateStructure(slides).value]
    /\ UNCHANGED <<lines, current_slide, pc, text, entry_slides, consumed,
                   planner_vars, web_vars, agent_vars, render_vars, chat_vars>>

CallSplitForAgents(batch_size) ==
    /\ pc = "idle"
    /\ ret' = [op |-> "split_for_agents",
               batch_size |-> batch_size,
               batches |-> SplitForAgents(slides, batch_size)]
    /\ UNCHANGED <<slides, lines, current_slide, pc, text, entry_slides,
                   consumed, planner_vars, web_vars, agent_vars, render_vars, chat_vars>>

Next ==
    \/ \E n \in 1..(MaxLines - consumed) : \E txt \in Texts(n) : CallParseText(txt)
    \/ SkipBlankLine
    \/ StartTitle
    \/ StartSection
    \/ AddBullet
    \/ AddText
    \/ ReturnFromParseText
    \/ CallValidateStructure
    \/ \E batch_size \in 1..MaxBatchSize : CallSplitForAgents(batch_size)

Spec == Init /\ [][Next]_vars

(***************************************************************************)
(* The planner on its own: the caller holds an outline and makes one call  *)
(* on it; each _fallback_plan call builds a fresh OutlineParser.           *)
(***************************************************************************)
InitPlan ==
    /\ slides = <<>>
    /\ lines = <<>>
    /\ current_slide = None
    /\ pc = "idle"
    /\ text = <<>>
    /\ entry_slides = <<>>
    /\ ret = [op |-> "__init__"]
    /\ consumed = 0
    /\ plan_text \in PlanOutlines
    /\ plan_ret = [op |-> "pending"]
    /\ WebAtRest
    /\ AgentsAtRest

CallFallbackPlan ==
    /\ plan_ret.op = "pending"
    /\ plan_ret' = [op |-> "_fallback_plan",
                    enhanced_slides |-> FallbackPlan(plan_text)]
    /\ UNCHANGED <<plan_text, parser_vars, web_vars, agent_vars, render_vars, chat_vars>>

CallAnalyzeContentDepth ==
    /\ plan_ret.op = "pending"
    /\ plan_ret' = [op |-> "analyze_content_depth",
                    analysis |-> AnalyzeContentDepth(plan_text)]
    /\ UNCHANGED <<plan_text, parser_vars, web_vars, agent_vars, render_vars, chat_vars>>

NextPlan ==
    \/ CallFallbackPlan
    \/ CallAnalyzeContentDepth

SpecPlan == InitPlan /\ [][NextPlan]_vars

(***************************************************************************)
(* The /generate and /status handlers.  Shell "status" is the shell that   *)
(* keeps generation_status, plans with SlidePlanner and renders with       *)
(* PPTXRenderer; shell "simple" parses, validates and renders with         *)
(* PPTXAssembler.  The handler is run in the steps between which another   *)
(* request can see its effects or an exception can leave it.               *)
(***************************************************************************)
JobIds == {"j1", "j2"}

\* f"zain_presentation_{job_id}.pptx"
OutputFilename(j) == <<"zain_presentation_", j, ".pptx">>

\* what str(e) gives for the exceptions the steps of /generate raise
Exceptions == {"config.json: No such file or directory",
               "No space left on device"}

\* '', ' \n', 't', '# A', '- a', '# A\nt\n---', '- a\n---\n# A'
WebOutlines ==
    {<<>>, <<" ", LF>>, FreeTextLine, HeadingLine, HyphenBulletLine,
     Join(<<LF>>, <<HeadingLine, FreeTextLine, DividerLine>>),
     Join(<<LF>>, <<HyphenBulletLine, DividerLine, HeadingLine>>)}

\* what the form of a /generate request may carry besides the outline: no
\* gradient selection, the title gradient alone, or both
Forms ==
    {<<>>,
     SetKey(<<>>, "title_gradient", "midnightsky"),
     SetKey(SetKey(<<>>, "title_gradient", "midnightsky"),
            "section_gradient", "limelagoon")}

\* a variant that leaves the planner's default gradients on planned slides
ApplySelections_KeepsPlanned(sl, title_gradient, section_gradient, use_ai) ==
    [i \in 1..Len(sl) |->
        IF sl[i].type = "title" /\ ~use_ai
        THEN SetKey(sl[i], "gradient", title_gradient)
        ELSE IF sl[i].type = "section" /\ ~use_ai
        THEN SetKey(sl[i], "gradient", section_gradient)
        ELSE IF sl[i].type = "content" /\ ~use_ai
        THEN SetKey(sl[i], "layout", "bullets")
        ELSE sl[i]]

\* the two loops over slides_data that set gradients (and, without AI
\* planning, the layout)
ApplySelections(sl, title_gradient, section_gradient, use_ai) ==
    [i \in 1..Len(sl) |->
        IF sl[i].type = "title" THEN SetKey(sl[i], "gradient", title_gradient)
        ELSE IF sl[i].type = "section"
        THEN SetKey(sl[i], "gradient", section_gradient)
        ELSE IF sl[i].type = "content" /\ ~use_ai
        THEN SetKey(sl[i], "layout", "bullets")
        ELSE sl[i]]

\* The output folder and generation_status are empty, or they hold the deck
\* and the entry an earlier request for '# A' left under job id j1, or (the
\* server having been restarted since) only the deck.
InitWeb ==
    /\ slides = <<>>
    /\ lines = <<>>
    /\ current_slide = None
    /\ pc = "idle"
    /\ text = <<>>
    /\ entry_slides = <<>>
    /\ ret = [op |-> "__init__"]
    /\ consumed = 0
    /\ plan_text = <<>>
    /\ plan_ret = [op |-> "__init__"]
    /\ request = NoRequest
    /\ web_pc = "idle"
    /\ job_id = "none"
    /\ slides_data = <<>>
    /\ \/ generation_status = <<>> /\ generated = <<>>
       \/ /\ generation_status \in
                {<<>>, [j \in {"j1"} |-> [status |-> "complete", progress |-> 100]]}
          /\ generated =
                [j \in {"j1"} |->
                    [state |-> "complete", by |-> "earlier",
                     deck |-> RenderPresentation(FallbackPlan(HeadingLine))]]
    /\ response = NoResponse
    /\ status_reply = NoResponse
    /\ AgentsAtRest

BadRequest(message) ==
    /\ response' = [code |-> 400, error |-> message]
    /\ UNCHANGED <<web_pc, job_id, slides_data, generation_status, generated>>

\* the handler up to the point where it has its job id
ReceiveGenerate(shell, outline_text, use_ai, form) ==
    /\ web_pc = "idle"
    /\ request = NoRequest
    /\ request' = [shell |-> shell,
                   outline |-> outline_text,
                   use_ai |-> use_ai,
                   form |-> form,
                   title_gradient |-> Get(form, "title_gradient", "ultraviolet"),
                   section_gradient |-> Get(form, "section_gradient", "coraldawn")]
    /\ IF Strip(outline_text) = <<>>
       THEN BadRequest("No outline provided")
       ELSE IF shell = "status"
       THEN \E j \in JobIds :
               /\ job_id' = j
               /\ generation_status' =
                     SetKey(generation_status, j,
                            [status |-> "planning", progress |-> 10])
               /\ web_pc' = "planning"
               /\ UNCHANGED <<slides_data, generated, response>>
       ELSE LET parsed == ValidateStructure(ParseText(<<>>, outline_text)).slides
            IN  IF parsed = <<>>
                THEN BadRequest("Could not parse outline")
                ELSE \E j \in JobIds :
                        /\ job_id' = j
                        /\ slides_data' = parsed
                        /\ web_pc' = "rendering"
                        /\ UNCHANGED <<generation_status, generated, response>>
    /\ UNCHANGED <<status_reply, parser_vars, planner_vars, agent_vars, render_vars, chat_vars>>

\* Step 1 of the status shell: plan or parse, then apply the selections
PlanSlidesData ==
    /\ web_pc = "planning"
    /\ slides_data' =
          ApplySelections(IF request.use_ai
                          THEN FallbackPlan(request.outline)
                          ELSE ParseText(<<>>, request.outline),
                          request.title_gradient, request.section_gradient,
                          request.use_ai)
    /\ generation_status' =
          SetKey(generation_status, job_id, [status |-> "rendering", progress |-> 50])
    /\ web_pc' = "rendering"
    /\ UNCHANGED <<request, job_id, generated, response, status_reply,
                   parser_vars, planner_vars, agent_vars, render_vars, chat_vars>>

\* except Exception as e: return jsonify({'error': str(e)}), 500
ServerError(e) ==
    /\ response' = [code |-> 500, error |-> e]
    /\ web_pc' = "idle"
    /\ UNCHANGED <<request, job_id, slides_data, generation_status, status_reply,
                   parser_vars, planner_vars, agent_vars, render_vars, chat_vars>>

\* an exception leaves the handler before it has opened the output file:
\* in planning, in BrandConfig, or while the slides are built in memory
RaiseBeforeSave ==
    /\ web_pc \in {"planning", "rendering"}
    /\ \E e \in Exceptions : ServerError(e)
    /\ UNCHANGED generated

\* prs.save(output_path) raises: the file may not have been opened, or it is
\* left as far as it was written; the handler removes nothing
RaiseInSave ==
    /\ web_pc = "rendering"
    /\ \E e \in Exceptions : ServerError(e)
    /\ \/ UNCHANGED generated
       \/ generated' = SetKey(generated, job_id, [state |-> "partial", by |-> "request"])

\* Step 2: the deck is rendered and saved
RenderAndSave ==
    /\ web_pc = "rendering"
    /\ generated' =
          SetKey(generated, job_id,
                 [state |-> "complete", by |-> "request",
                  deck |-> IF request.shell = "status"
                           THEN RenderPresentation(slides_data)
                           ELSE CreatePresentation(slides_data)])
    /\ web_pc' = "saved"
    /\ UNCHANGED <<request, job_id, slides_data, generation_status, response,
                   status_reply, parser_vars, planner_vars, agent_vars,
                   render_vars, chat_vars>>

\* the success response (and, in the status shell, the 'complete' entry)
RespondSuccess ==
    /\ web_pc = "saved"
    /\ generation_status' =
          IF request.shell = "status"
          THEN SetKey(generation_status, job_id,
                      [status |-> "complete", progress |-> 100])
          ELSE generation_status
    /\ response' =
          LET body == [code |-> 200,
                       success |-> TRUE,
                       filename |-> OutputFilename(job_id),
                       slide_count |-> Len(slides_data),
                       download_url |-> <<"/download/", OutputFilename(job_id)>>]
          IN  IF request.shell = "status" THEN SetKey(body, "job_id", job_id)
              ELSE body
    /\ web_pc' = "idle"
    /\ UNCHANGED <<request, job_id, slides_data, generated, status_reply,
                   parser_vars, planner_vars, agent_vars, render_vars, chat_vars>>

\* GET /status/<job_id>
GetStatus(j) ==
    /\ status_reply' = [job_id |-> j,
                        body |-> Get(generation_status, j,
                                     [status |-> "unknown", progress |-> 0])]
    /\ UNCHANGED <<request, web_pc, job_id, slides_data, generation_status,
                   generated, response, parser_vars, planner_vars, agent_vars,
                   render_vars, chat_vars>>

NextWeb ==
    \/ \E shell \in {"status", "simple"}, outline_text \in WebOutlines,
          use_ai \in BOOLEAN, form \in Forms :
          ReceiveGenerate(shell, outline_text, use_ai, form)
    \/ PlanSlidesData
    \/ RaiseBeforeSave
    \/ RaiseInSave
    \/ RenderAndSave
    \/ RespondSuccess
    \/ \E j \in JobIds : GetStatus(j)

SpecWeb == InitWeb /\ [][NextWeb]_vars

(***************************************************************************)
(* SlideRenderer.render_content_slide called on its own, as the chat API's *)
(* create_slide and render_presentation tools let a caller do with any     *)
(* layout name and any list of items.                                      *)
(***************************************************************************)
MaxRenderItems == 3

\* the lists of up to MaxRenderItems items
ItemLists ==
    UNION {[1..n -> {<<"a">>, <<"b">>, <<"c">>}] : n \in 0..MaxRenderItems}

\* the four layouts render_content_slide dispatches on, and one it does not
LayoutNames == {"bullets", "two_column", "big_number", "quote", "chart"}

CallRenderContentSlide(title, content_items, layout) ==
    /\ render_ret' = [op |-> "render_content_slide",
                      content_items |-> content_items,
                      layout |-> layout,
                      slide |-> RenderContentSlide(title, content_items, layout)]
    /\ UNCHANGED <<parser_vars, planner_vars, web_vars, agent_vars, chat_vars>>

NextRender ==
    \E content_items \in ItemLists, layout \in LayoutNames :
        CallRenderContentSlide(<<"T">>, content_items, layout)

SpecRender == Init /\ [][NextRender]_vars

(***************************************************************************)
(* The sub-agent path: a parser that has parsed an outline, a spawner, its *)
(* coordinator and a planner, called in any order.                         *)
(***************************************************************************)
\* 't' (no record), '# A', '# A\n---', '- a\n---\n# A', '# A\n---\n# A\n---'
AgentOutlines ==
    {FreeTextLine, HeadingLine,
     Join(<<LF>>, <<HeadingLine, DividerLine>>),
     Join(<<LF>>, <<HyphenBulletLine, DividerLine, HeadingLine>>),
     Join(<<LF>>, <<HeadingLine, DividerLine, HeadingLine, DividerLine>>)}

InitAgents ==
    /\ \E outline_text \in AgentOutlines :
          /\ text = outline_text
          /\ slides = ParseText(<<>>, outline_text)
    /\ lines = <<>>
    /\ current_slide = None
    /\ pc = "idle"
    /\ entry_slides = <<>>
    /\ ret = [op |-> "parse_text", returned |-> SlidesRef]
    /\ consumed = 0
    /\ plan_text = <<>>
    /\ plan_ret = [op |-> "__init__"]
    /\ WebAtRest
    /\ AgentsAtRest

\* spawner.spawn_slide_agent(slide, slide_index, total, output_dir), the id
\* drawn being j
Spawned(slide_index, j) ==
    SpawnSlideAgent(jobs, slides[slide_index + 1], slide_index, Len(slides),
                    "output", j)

CallSpawnSlideAgent(slide_index, j) ==
    /\ jobs' = Spawned(slide_index, j).jobs
    /\ agent_ret' = [op |-> "spawn_slide_agent",
                     job_id |-> Spawned(slide_index, j).job_id,
                     prompt |-> Spawned(slide_index, j).prompt,
                     output_file |-> Spawned(slide_index, j).output_file]
    /\ UNCHANGED <<parser_vars, planner_vars, web_vars, render_vars, chat_vars>>

CallCoordinateGeneration(batch_size, ids) ==
    /\ jobs' = CoordinateGeneration(jobs, slides, "output", batch_size, ids).jobs
    /\ agent_ret' =
          [op |-> "coordinate_generation",
           batch_size |-> batch_size,
           result |-> CoordinateGeneration(jobs, slides, "output", batch_size,
                                           ids).returned]
    /\ UNCHANGED <<parser_vars, planner_vars, web_vars, render_vars, chat_vars>>

CallPlanSlides(outline_text, spawn_agent) ==
    /\ plan_text' = outline_text
    /\ plan_ret' = [op |-> "plan_slides",
                    spawn_agent |-> spawn_agent,
                    enhanced_slides |-> PlanSlides(outline_text, spawn_agent).returned,
                    spawn_calls |-> PlanSlides(outline_text, spawn_agent).spawn_calls]
    /\ UNCHANGED <<parser_vars, web_vars, agent_vars, render_vars, chat_vars>>

NextAgents ==
    \/ \E slide_index \in 0..(Len(slides) - 1), j \in JobIds :
          CallSpawnSlideAgent(slide_index, j)
    \/ \E batch_size \in 1..MaxBatchSize, ids \in [1..Len(slides) -> JobIds] :
          CallCoordinateGeneration(batch_size, ids)
    \/ \E outline_text \in {HeadingLine, Q1Outline},
          spawn_agent \in {None, [type |-> "function"]} :
          CallPlanSlides(outline_text, spawn_agent)

SpecAgents == InitAgents /\ [][NextAgents]_vars

(***************************************************************************)
(* SlideAgentCoordinator.collect_results on the results a caller supplies. *)
(***************************************************************************)
MaxResults == 3
MaxSlideIndex == 2

\* a job result for slide i, with or without a generated slide
JobResults ==
    {[slide_index |-> i] : i \in 0..MaxSlideIndex}
    \cup {[slide_index |-> i, generated_slide |-> [title |-> <<"S", i>>]] :
             i \in 0..MaxSlideIndex}

CallCollectResults(job_results) ==
    /\ agent_ret' = [op |-> "collect_results",
                     job_results |-> job_results,
                     slides |-> CollectResults(job_results)]
    /\ UNCHANGED <<jobs, parser_vars, planner_vars, web_vars, render_vars, chat_vars>>

NextCollect ==
    \E n \in 0..MaxResults : \E job_results \in [1..n -> JobResults] :
        CallCollectResults(job_results)

SpecCollect == Init /\ [][NextCollect]_vars

(***************************************************************************)
(* The command line: one generate_presentation call on the outline read.   *)
(***************************************************************************)
MaxDeckLines == 5

\* outlines of up to MaxDeckLines headings and dividers: up to MaxDeckLines
\* records, one more where validate_structure inserts its placeholder
DeckOutlines(n) == {Join(<<LF>>, ls) : ls \in [1..n -> {HeadingLine, DividerLine}]}

\* parser.get_slide_count() after validate_structure
DeckSize(outline_text) == Len(ValidateStructure(ParseText(<<>>, outline_text)).slides)

CallGeneratePresentation(outline_text, use_agents, ids) ==
    LET done == GeneratePresentation(outline_text, use_agents, ids)
    IN  /\ ret.op = "__init__"
        /\ text' = outline_text
        /\ slides' = done.slides_data
        /\ ret' = [op |-> "generate_presentation",
                   use_agents |-> use_agents,
                   slides_data |-> done.slides_data,
                   result_path |-> "output.pptx"]
        /\ jobs' = done.jobs
        /\ agent_ret' = [op |-> "coordinate_generation",
                         batch_size |-> 3,
                         result |-> done.plan]
        /\ generated' =
              SetKey(generated, "output.pptx",
                     [state |-> "complete", by |-> "generate_presentation",
                      deck |-> done.deck])
        /\ UNCHANGED <<lines, current_slide, pc, entry_slides, consumed,
                       planner_vars, request, web_pc, job_id, slides_data,
                       generation_status, response, status_reply, render_vars, chat_vars>>

NextGenerate ==
    \E n \in 1..MaxDeckLines : \E outline_text \in DeckOutlines(n) :
        \E use_agents \in BOOLEAN :
            \E ids \in [1..DeckSize(outline_text) -> JobIds] :
                CallGeneratePresentation(outline_text, use_agents, ids)

SpecGenerate == Init /\ [][NextGenerate]_vars

(***************************************************************************)
(* The chat API: its routes, called in any order on the conversation ids   *)
(* a client may name.                                                      *)
(***************************************************************************)
MaxChatMessages == 2
MaxChatSlides == 2

ConvIds == {"c1", "c2"}

\* 'make slides', 'make a plot', 'hi'
ChatMessages ==
    {<<"m", "a", "k", "e", " ", "s", "l", "i", "d", "e", "s">>,
     <<"m", "a", "k", "e", " ", "a", " ", "p", "l", "o", "t">>,
     <<"h", "i">>}

\* the tool calls a client posts: create_slide with and without 'type',
\* render_presentation of the conversation's slides and of slides it
\* supplies, the two other tools and a tool that does not exist
ToolCalls ==
    <<[tool |-> "create_slide",
       parameters |-> [type |-> "title", title |-> <<"A">>,
                       gradient |-> "midnightsky"]],
      [tool |-> "create_slide",
       parameters |-> [type |-> "section", title |-> <<"B">>]],
      [tool |-> "create_slide",
       parameters |-> [type |-> "content", title |-> <<"C">>,
                       content |-> <<<<"a">>>>, layout |-> "quote"]],
      [tool |-> "create_slide", parameters |-> [title |-> <<"D">>]],
      [tool |-> "render_presentation", parameters |-> <<>>],
      [tool |-> "render_presentation",
       parameters |-> [title_gradient |-> "limelagoon"]],
      [tool |-> "render_presentation",
       parameters |-> [section_gradient |-> "limelagoon",
                       slides |-> <<[type |-> "section", title |-> <<"B">>,
                                     gradient |-> "midnightsky"]>>]],
      [tool |-> "render_presentation",
       parameters |-> [slides |-> <<[title |-> <<"D">>]>>]],
      [tool |-> "generate_chart",
       parameters |-> [chart_type |-> "bar", title |-> <<"T">>]],
      [tool |-> "generate_chart", parameters |-> <<>>],
      [tool |-> "analyze_content", parameters |-> [content |-> <<"x">>]],
      [tool |-> "export", parameters |-> <<>>]>>

\* how many entries the lists named field hold, over all conversations
Held(field) ==
    LET RECURSIVE Sum(_)
        Sum(ids) == IF ids = {} THEN 0
                    ELSE LET c == CHOOSE c \in ids : TRUE
                         IN  Len(conversations[c][field]) + Sum(ids \ {c})
    IN  Sum(DOMAIN conversations)

\* return jsonify({"error": "Conversation not found"}), 404
NotFound(route, c) ==
    [route |-> route, asked |-> c, code |-> 404,
     error |-> "Conversation not found"]

\* POST /api/chat/new; str(uuid.uuid4()) is the full uuid, drawn afresh
NewConversation(c) ==
    /\ c \notin DOMAIN conversations
    /\ conversations' =
          SetKey(conversations, c, [id |-> c, messages |-> <<>>, slides |-> <<>>])
    /\ chat_reply' = [route |-> "new", asked |-> c, code |-> 200]
    /\ UNCHANGED <<parser_vars, planner_vars, web_vars, agent_vars, render_vars>>

\* POST /api/chat/<conversation_id>/message
SendMessage(c, message) ==
    /\ IF c \notin DOMAIN conversations
       THEN /\ chat_reply' = NotFound("message", c)
            /\ UNCHANGED conversations
       ELSE /\ Held("messages") + 2 <= MaxChatMessages
            /\ conversations' =
                  [conversations EXCEPT ![c].messages =
                      @ \o <<[role |-> "user", content |-> message],
                             [role |-> "assistant",
                              content |-> ProcessMessage(message)]>>]
            /\ chat_reply' = [route |-> "message", asked |-> c, code |-> 200,
                              response |-> ProcessMessage(message)]
    /\ UNCHANGED <<parser_vars, planner_vars, web_vars, agent_vars, render_vars>>

\* a variant that starts the conversation a slides query names, if it is new
GetSlides_StartsConversation(c) ==
    /\ conversations' =
          IF c \in DOMAIN conversations THEN conversations
          ELSE SetKey(conversations, c, [id |-> c, messages |-> <<>>, slides |-> <<>>])
    /\ chat_reply' =
          IF c \in DOMAIN conversations
          THEN [route |-> "slides", asked |-> c, code |-> 200,
                slides |-> conversations[c].slides]
          ELSE NotFound("slides", c)
    /\ UNCHANGED <<parser_vars, planner_vars, web_vars, agent_vars, render_vars>>

\* GET /api/chat/<conversation_id>/slides
GetSlides(c) ==
    /\ chat_reply' =
          IF c \in DOMAIN conversations
          THEN [route |-> "slides", asked |-> c, code |-> 200,
                slides |-> conversations[c].slides]
          ELSE NotFound("slides", c)
    /\ UNCHANGED <<conversations, parser_vars, planner_vars, web_vars,
                   agent_vars, render_vars>>

\* POST /api/chat/<conversation_id>/tool.  An exception of the orchestrator
\* leaves the route before the tool message is stored and is answered 500.
ToolRequest(c, call, chart_id) ==
    /\ IF c \notin DOMAIN conversations
       THEN /\ chat_reply' = NotFound("tool", c)
            /\ UNCHANGED <<conversations, generated>>
       ELSE LET done == ExecuteTool(conversations[c].slides, c, call.tool,
                                    call.parameters, chart_id)
            IN  /\ Held("messages") + 1 <= MaxChatMessages
                /\ call.tool = "create_slide" =>
                      Held("slides") + 1 <= MaxChatSlides
                /\ conversations' =
                      [conversations EXCEPT
                          ![c].slides = done.slides,
                          ![c].messages =
                              IF done.raised THEN @
                              ELSE Append(@, [role |-> "tool",
                                              content |-> done.result])]
                /\ chat_reply' =
                      [route |-> "tool", asked |-> c, tool |-> call.tool,
                       parameters |-> call.parameters,
                       code |-> IF done.raised THEN 500 ELSE 200,
                       body |-> IF done.raised THEN <<>> ELSE <<done.result>>]
                /\ generated' =
                      IF done.rendered = <<>> THEN generated
                      ELSE SetKey(generated, ChatFilename(c),
                                  [state |-> "complete",
                                   by |-> "render_presentation",
                                   deck |-> done.rendered[1]])
    /\ UNCHANGED <<parser_vars, planner_vars, request, web_pc, job_id,
                   slides_data, generation_status, response, status_reply,
                   agent_vars, render_vars>>

NextChat ==
    \/ \E c \in ConvIds : NewConversation(c)
    \/ \E c \in ConvIds, message \in ChatMessages : SendMessage(c, message)
    \/ \E c \in ConvIds, k \in 1..Len(ToolCalls), chart_id \in JobIds :
          ToolRequest(c, ToolCalls[k], chart_id)
    \/ \E c \in ConvIds : GetSlides(c)

SpecChat == Init /\ [][NextChat]_vars

(***************************************************************************)
(* The parser on degenerate lines: markers with no text, whitespace,       *)
(* runs of dashes, an item that itself starts with a marker.               *)
(***************************************************************************)
\* '#', '-', the glyph alone, '--', '---', '----', '- - a', ' ', '# A',
\* '- a', 't'
EdgeLines ==
    {<<"#">>, <<"-">>, <<BulletGlyph>>, <<"-", "-">>, DividerLine,
     <<"-", "-", "-", "-">>, <<"-", " ", "-", " ", "a">>, <<" ">>, HeadingLine,
     HyphenBulletLine, FreeTextLine}

EdgeTexts(n) == {Join(<<LF>>, ls) : ls \in [1..n -> EdgeLines]}

NextEdge ==
    \/ \E n \in 1..(MaxLines - consumed) : \E txt \in EdgeTexts(n) : CallParseText(txt)
    \/ SkipBlankLine
    \/ StartTitle
    \/ StartSection
    \/ AddBullet
    \/ AddText
    \/ ReturnFromParseText

SpecEdge == Init /\ [][NextEdge]_vars

(***************************************************************************)
(* Properties of OutlineParser.parse_text (checked under Spec unless said  *)
(* otherwise).                                                             *)
(***************************************************************************)
ContentTitle == <<"C", "o", "n", "t", "e", "n", "t">>

\* the latest call was parse_text on a parser that held no slides, and it
\* has returned
ReturnedFromFreshParse == ret.op = "parse_text" /\ entry_slides = <<>>

NonEmptyLines(txt) == SelectSeq(Split(txt, LF), LAMBDA l : Strip(l) # <<>>)

\* a bullet line as the specification words it: a hyphen or the bullet glyph
\* leads it, and it is no divider
IsSpecBulletLine(l) ==
    \/ StartsWith(Strip(l), <<"-">>) /\ ~StartsWith(Strip(l), <<"-", "-", "-">>)
    \/ StartsWith(Strip(l), <<BulletGlyph>>)

SpecBulletItem(l) == Strip(LStripChars(Strip(l), {"-", BulletGlyph}))

BulletsOnly(txt) ==
    /\ NonEmptyLines(txt) # <<>>
    /\ \A i \in 1..Len(NonEmptyLines(txt)) : IsSpecBulletLine(NonEmptyLines(txt)[i])

\* C1: an outline whose non-empty lines are all bullet lines (hyphen or bullet
\* glyph) parses, on a fresh parser, to exactly one content record titled
\* "Content" whose items are the lines in order, marker and whitespace stripped.
C1_BulletsOnlyGiveOneContentRecord ==
    (ReturnedFromFreshParse /\ BulletsOnly(text)) =>
        slides = <<[type |-> "content",
                    title |-> ContentTitle,
                    content |-> [i \in 1..Len(NonEmptyLines(text)) |->
                                    SpecBulletItem(NonEmptyLines(text)[i])]]>>

Q1Title == <<"Q", "1", " ", "R", "e", "v", "i", "e", "w">>
Q1Subtitle == <<"G", "r", "o", "w", "t", "h", " ", "s", "t", "o", "r", "y">>
Q1Items ==
    <<<<"R", "e", "v", "e", "n", "u", "e", " ", "u", "p", " ", "1", "5", "%">>,
      <<"C", "o", "s", "t", "s", " ", "d", "o", "w", "n", " ", "8", "%">>>>

PlannedQ1 == plan_ret.op = "_fallback_plan" /\ plan_text = Q1Outline

\* C2 as stated (checked under SpecPlan): the Q1 outline yields a title record
\* followed by a content record titled "Content" that holds the two items and
\* is laid out as big_number.
C2_Q1GivesTitleThenContent ==
    PlannedQ1 =>
        /\ Len(plan_ret.enhanced_slides) = 2
        /\ plan_ret.enhanced_slides[1].type = "title"
        /\ plan_ret.enhanced_slides[1].title = Q1Title
        /\ plan_ret.enhanced_slides[1].subtitle = Q1Subtitle
        /\ plan_ret.enhanced_slides[2].type = "content"
        /\ plan_ret.enhanced_slides[2].title = ContentTitle
        /\ plan_ret.enhanced_slides[2].content = Q1Items
        /\ plan_ret.enhanced_slides[2].layout = "big_number"

\* C2 as amended (checked under SpecPlan): the Q1 outline yields exactly one
\* record, the heading's record turned into a content record: it keeps the
\* title "Q1 Review" and the subtitle "Growth story", holds the two items in
\* order, and is laid out as big_number.
C2_Q1GivesOneCoercedContent ==
    PlannedQ1 =>
        plan_ret.enhanced_slides = <<[type |-> "content",
                            title |-> Q1Title,
                            subtitle |-> Q1Subtitle,
                            content |-> Q1Items,
                            layout |-> "big_number"]>>

C2_Witness == PlannedQ1 /\ Len(plan_ret.enhanced_slides) = 1

\* the loop is about to read a line that takes parse_text's bullet branch
ReadsBullet ==
    /\ InLoop
    /\ CurrentLine # <<>>
    /\ ~IsTitleLine(CurrentLine)
    /\ ~IsSectionLine(CurrentLine)
    /\ IsBulletLine(CurrentLine)

IsSpecHeadingLine(line) ==
    StartsWith(line, <<"#", " ">>) \/ StartsWith(line, <<"#", "#", " ">>)

HeadingText(line) == Strip(LStripChars(line, {"#"}))

\* C4: a heading whose text contains "section" (any case) finalizes the
\* current record and starts a section record titled with the heading text
\* less the "Section:" label; any other heading starts a title record.
C4_SectionHeadingStartsSection ==
    [][(InLoop /\ IsSpecHeadingLine(CurrentLine)) =>
          /\ slides' = Finalize(current_slide, slides)
          /\ IF Contains(Lower(HeadingText(CurrentLine)), SectionWord)
             THEN /\ current_slide'.type = "section"
                  /\ current_slide'.title =
                        Strip(Replace(HeadingText(CurrentLine), SectionLabel, <<>>))
             ELSE /\ current_slide'.type = "title"
                  /\ current_slide'.title = HeadingText(CurrentLine)]_vars

\* the loop is about to read a line that is not blank, no heading, no divider
\* and no bullet
ReadsOtherLine ==
    /\ InLoop
    /\ CurrentLine # <<>>
    /\ ~IsTitleLine(CurrentLine)
    /\ ~IsSectionLine(CurrentLine)
    /\ ~IsBulletLine(CurrentLine)

\* C5: such a line becomes the subtitle of a title record that has none, is
\* appended to the items of a content record, and is dropped otherwise.
C5_FreeTextLine ==
    [][ReadsOtherLine =>
          /\ slides' = slides
          /\ IF current_slide # None /\ current_slide.type = "title"
                /\ current_slide.subtitle = <<>>
             THEN current_slide' = [current_slide EXCEPT !.subtitle = CurrentLine]
             ELSE IF current_slide # None /\ current_slide.type = "content"
                  THEN current_slide' =
                          [current_slide EXCEPT !.content = Append(@, CurrentLine)]
                  ELSE current_slide' = current_slide]_vars

\* all three outcomes in one parse: a subtitle was set, a second free-text
\* line was dropped by the title, and the parse went on
C5_Witness ==
    /\ pc = "parse_text"
    /\ lines = <<>>
    /\ text = Join(<<LF>>, <<HeadingLine, FreeTextLine, FreeTextLine>>)
    /\ current_slide.type = "title"
    /\ current_slide.subtitle = FreeTextLine

\* the hyphen line that carries the same text as a glyph line
HyphenTwin(line) == <<"-">> \o Tail(line)

\* C6: a line led by the bullet glyph is handled exactly like the hyphen line
\* with the same text, in every parser state.
C6_GlyphHandledLikeHyphen ==
    [][(InLoop /\ StartsWith(CurrentLine, <<BulletGlyph>>)) =>
          LET twin == ProcessLine(current_slide, slides, HyphenTwin(CurrentLine))
          IN  /\ current_slide' = twin.current_slide
              /\ slides' = twin.slides]_vars

(***************************************************************************)
(* Properties of validate_structure and split_for_agents (under Spec).     *)
(***************************************************************************)
\* C7: validate_structure returns false exactly when the slide list is empty,
\* and when it returns true the first record of the list is a title.
C7_ValidateResult ==
    [][ret'.op = "validate_structure" =>
          /\ (ret'.value = FALSE) <=> (slides = <<>>)
          /\ ret'.value = TRUE => (slides' # <<>> /\ slides'[1].type = "title")]_vars

\* validate_structure returned true on a list that a second parse_text call
\* had extended
C7_Witness ==
    /\ ret.op = "validate_structure"
    /\ ret.value = TRUE
    /\ entry_slides # <<>>
    /\ Len(slides) > Len(entry_slides)
    /\ slides[1].type = "title"

\* C8: validate_structure on a non-empty list whose first record is no title
\* inserts the one record (title "Presentation", empty subtitle) at position 0
\* and leaves the rest as it was; otherwise it changes nothing; a second call
\* right after a first changes nothing.
C8_ValidateFrame ==
    [][ret'.op = "validate_structure" =>
          /\ IF slides # <<>> /\ slides[1].type # "title"
             THEN /\ Len(slides') = Len(slides) + 1
                  /\ slides'[1] = [type |-> "title",
                                   title |-> <<"P", "r", "e", "s", "e", "n", "t",
                                               "a", "t", "i", "o", "n">>,
                                   subtitle |-> <<>>]
                  /\ Tail(slides') = slides
             ELSE slides' = slides
          /\ ret.op = "validate_structure" => slides' = slides]_vars

\* the placeholder was inserted in front of two records
C8_Witness ==
    /\ ret.op = "validate_structure"
    /\ Len(slides) = 3
    /\ slides[1] = PlaceholderTitle
    /\ slides[2].type = "content"
    /\ slides[3].type = "section"

RECURSIVE ConcatBatches(_)
ConcatBatches(batches) ==
    IF batches = <<>> THEN <<>>
    ELSE Head(batches).slides \o ConcatBatches(Tail(batches))

\* C9: the batches of split_for_agents, concatenated in order, are the slide
\* list; every batch but the last holds batch_size slides and the last holds
\* 1..batch_size; batch_id counts 0, 1, 2, ... and start_index is
\* batch_id * batch_size; the slide list is not modified.
C9_SplitPartitions ==
    [][ret'.op = "split_for_agents" =>
          LET batches == ret'.batches
              size == ret'.batch_size
          IN  /\ slides' = slides
              /\ ConcatBatches(batches) = slides
              /\ \A k \in 1..Len(batches) :
                    /\ batches[k].batch_id = k - 1
                    /\ batches[k].start_index = (k - 1) * size
                    /\ k < Len(batches) => Len(batches[k].slides) = size
                    /\ k = Len(batches) => Len(batches[k].slides) \in 1..size]_vars

\* a full batch followed by a shorter last batch
C9_Witness ==
    /\ ret.op = "split_for_agents"
    /\ ret.batch_size = 2
    /\ Len(ret.batches) = 2
    /\ Len(ret.batches[2].slides) = 1

(***************************************************************************)
(* Properties of the layout heuristic of _fallback_plan (under SpecPlan).  *)
(***************************************************************************)
JoinedItems(items) == Join(<<" ">>, items)

\* the rule of the specification, first match wins
SpecLayout(items) ==
    IF Len(items) > 5 THEN "two_column"
    ELSE IF /\ Len(items) <= 3
            /\ \E i \in 1..Len(JoinedItems(items)) : JoinedItems(items)[i] \in Digits
            /\ \E i \in 1..Len(JoinedItems(items)) :
                  JoinedItems(items)[i] \in {"%", "$", "M", "K"}
         THEN "big_number"
         ELSE "bullets"

\* C10: every content record planned by _fallback_plan has the layout the
\* rule gives for its content list; title and section records have none.
C10_LayoutIsFirstMatch ==
    plan_ret.op = "_fallback_plan" =>
        \A i \in 1..Len(plan_ret.enhanced_slides) :
            LET slide == plan_ret.enhanced_slides[i]
            IN  IF slide.type = "content"
                THEN /\ "layout" \in DOMAIN slide
                     /\ slide.layout = SpecLayout(slide.content)
                ELSE "layout" \notin DOMAIN slide

\* six stat-like items: two_column although the big_number signals are there
C10_Witness ==
    /\ plan_ret.op = "_fallback_plan"
    /\ Len(plan_ret.enhanced_slides) = 1
    /\ plan_ret.enhanced_slides[1].type = "content"
    /\ Len(plan_ret.enhanced_slides[1].content) = 6
    /\ plan_ret.enhanced_slides[1].content[1] = <<"5", "%">>
    /\ plan_ret.enhanced_slides[1].layout = "two_column"

(***************************************************************************)
(* Properties of the planned slide list for a heading and its bullets      *)
(* (under SpecPlan).                                                       *)
(***************************************************************************)
\* the outline is one heading line followed by exactly n bullet lines
HeadingThenBullets(txt, n) ==
    LET ls == Split(txt, LF)
    IN  /\ Len(ls) = n + 1
        /\ IsSpecHeadingLine(Strip(ls[1]))
        /\ \A i \in 2..Len(ls) : IsSpecBulletLine(ls[i])

\* C11: an outline of one heading line followed by 7 bullet lines is planned
\* as exactly one record, of type content, holding the 7 items in input
\* order and laid out as two_column.
C11_HeadingAndSevenBulletsGiveTwoColumn ==
    (plan_ret.op = "_fallback_plan" /\ HeadingThenBullets(plan_text, 7)) =>
        /\ Len(plan_ret.enhanced_slides) = 1
        /\ plan_ret.enhanced_slides[1].type = "content"
        /\ plan_ret.enhanced_slides[1].content =
              [i \in 1..7 |-> SpecBulletItem(Split(plan_text, LF)[i + 1])]
        /\ plan_ret.enhanced_slides[1].layout = "two_column"

\* the same over the outlines whose 7 bullet lines are all led by a hyphen
C11_SevenHyphenBullets ==
    (/\ plan_ret.op = "_fallback_plan"
     /\ HeadingThenBullets(plan_text, 7)
     /\ \A i \in 2..8 : StartsWith(Strip(Split(plan_text, LF)[i]), <<"-">>)) =>
        /\ Len(plan_ret.enhanced_slides) = 1
        /\ plan_ret.enhanced_slides[1].type = "content"
        /\ plan_ret.enhanced_slides[1].content =
              [i \in 1..7 |-> SpecBulletItem(Split(plan_text, LF)[i + 1])]
        /\ plan_ret.enhanced_slides[1].layout = "two_column"

(***************************************************************************)
(* Properties of parse_text on degenerate lines (under SpecEdge).          *)
(***************************************************************************)
\* the items written back as bullet lines, '- ' followed by the item
Reserialize(items) ==
    Join(<<LF>>, [i \in 1..Len(items) |-> <<"-", " ">> \o items[i]])

\* C12: for every content record parse_text has produced, writing its items
\* back as '- ' + item lines and parsing them with a fresh parser gives one
\* content record whose content list equals the original, item for item.
C12_BulletRoundTrip ==
    ret.op = "parse_text" =>
        \A i \in 1..Len(slides) :
            slides[i].type = "content" =>
                LET again == ParseText(<<>>, Reserialize(slides[i].content))
                IN  /\ Len(again) = 1
                    /\ again[1].type = "content"
                    /\ again[1].content = slides[i].content

\* a record whose items are a hyphen-led text, the empty text and a bare '#'
C12_Witness ==
    /\ ret.op = "parse_text"
    /\ Len(slides) = 1
    /\ slides[1].type = "content"
    /\ slides[1].content = <<<<"-", " ", "a">>, <<>>, <<"#">>>>

\* a line no branch takes: free text while there is no current record, or
\* the current record is a section, or a title that has its subtitle
ReadsDroppedLine ==
    /\ ReadsOtherLine
    /\ ~(Truthy(current_slide) /\ current_slide.type = "content")
    /\ ~(/\ Truthy(current_slide)
         /\ current_slide.type = "title"
         /\ current_slide.subtitle = <<>>)

RecordTypes == {"title", "section", "content"}

\* C13: parse_text never raises and makes its single pass: while lines are
\* left, the step reads no missing key of the current record and consumes
\* exactly one line; when none is left it returns the list of records; a
\* line no branch takes changes neither the current record nor the output.
C13_ParseTextNeverRaises ==
    [][pc = "parse_text" =>
          /\ InLoop =>
                /\ IsBulletLine(CurrentLine) /\ ~IsTitleLine(CurrentLine)
                        /\ ~IsSectionLine(CurrentLine)
                      => ~BulletBranchRaises(current_slide)
                /\ ReadsOtherLine => ~TextBranchRaises(current_slide)
                /\ lines' = Tail(lines)
                /\ pc' = "parse_text"
          /\ ReadsDroppedLine =>
                current_slide' = current_slide /\ slides' = slides
          /\ lines = <<>> =>
                /\ pc' = "idle"
                /\ ret' = [op |-> "parse_text", returned |-> SlidesRef]
                /\ \A i \in 1..Len(slides') : slides'[i].type \in RecordTypes]_vars

\* a text of unrecognized lines only has been parsed to the empty list
C13_Witness ==
    /\ ret.op = "parse_text"
    /\ text = Join(<<LF>>, <<<<"#">>, FreeTextLine, <<BulletGlyph>>>>)
    /\ entry_slides = <<>>
    /\ slides = <<>>

\* C19: a line led by three or more dashes is never a bullet: it finalizes
\* the current record (if any) and starts a new section record with an empty
\* content list; a line led by one or two dashes is taken as a bullet.
C19_DividerIsNeverABullet ==
    [][InLoop =>
          IF StartsWith(CurrentLine, <<"-", "-", "-">>)
          THEN /\ slides' = Finalize(current_slide, slides)
               /\ current_slide'.type = "section"
               /\ current_slide'.content = <<>>
               /\ DOMAIN current_slide' = {"type", "title", "content"}
          ELSE StartsWith(CurrentLine, <<"-">>) =>
                  /\ slides' = slides
                  /\ current_slide'.type = "content"
                  /\ current_slide'.content =
                        (IF Truthy(current_slide) /\ current_slide.type = "content"
                         THEN current_slide.content
                         ELSE <<>>) \o <<SpecBulletItem(CurrentLine)>>]_vars

\* four dashes read while a record was current: that record is in the output
\* and a section record is current
C19_Witness ==
    /\ pc = "parse_text"
    /\ Len(slides) = 1
    /\ slides[1].type = "content"
    /\ slides[1].content = <<<<>>>>
    /\ current_slide.type = "section"
    /\ current_slide.title = <<"-", "-", "-", "-">>
    /\ current_slide.content = <<>>

(***************************************************************************)
(* Properties of the /generate handlers (under SpecWeb).                   *)
(***************************************************************************)
\* the request's outline is empty or whitespace only, or parses to no record
EmptyOrUnparseable ==
    \/ Strip(request.outline) = <<>>
    \/ ParseText(<<>>, request.outline) = <<>>

\* the request has left a file in the output folder
WroteFile == \E j \in DOMAIN generated : generated[j].by = "request"

\* C14: in both shells and for both use_ai settings, once the handler has
\* accepted a request whose outline is empty, whitespace only or parses to
\* zero records, it has drawn no job id, recorded no status entry and written
\* no file, and its answer is a 400 with one of the two fixed messages.
C14_EmptyOutlineIsRejected ==
    (request # NoRequest /\ EmptyOrUnparseable) =>
        /\ job_id = "none"
        /\ ~WroteFile
        /\ response.code = 400
        /\ response.error \in {"No outline provided", "Could not parse outline"}

\* the same for the simple shell alone
C14_SimpleShellRejects ==
    (request # NoRequest /\ request.shell = "simple" /\ EmptyOrUnparseable) =>
        /\ job_id = "none"
        /\ ~WroteFile
        /\ response.code = 400
        /\ response.error \in {"No outline provided", "Could not parse outline"}

\* C15: a deck the handler has saved holds exactly one slide per record of
\* slides_data, in record order (same kind, same title), and the slide_count
\* of the success response is the number of slides in that deck.
C15_OneSlidePerRecord ==
    /\ \A j \in DOMAIN generated :
          (generated[j].by = "request" /\ generated[j].state = "complete") =>
              /\ Len(generated[j].deck) = Len(slides_data)
              /\ \A i \in 1..Len(slides_data) :
                    /\ generated[j].deck[i].kind = slides_data[i].type
                    /\ generated[j].deck[i].title = slides_data[i].title
    /\ response.code = 200 =>
          response.slide_count = Len(generated[job_id].deck)

\* the simple shell has answered for '- a\n---\n# A': the placeholder title,
\* the content record, the section and the title make four slides
C15_Witness ==
    /\ response.code = 200
    /\ request.shell = "simple"
    /\ response.slide_count = 4
    /\ Len(generated[job_id].deck) = 4
    /\ generated[job_id].deck[3].kind = "section"

\* C17: when a step raises after the outline was accepted, the answer is a
\* 500 that carries the exception text, the handler has stopped (nothing is
\* retried), and the request has left no file in the output folder.
C17_FailureLeavesNoDeck ==
    response.code = 500 =>
        /\ response.error \in Exceptions
        /\ web_pc = "idle"
        /\ ~WroteFile

\* the same without the file clause
C17_FailureIsReportedOnce ==
    response.code = 500 =>
        /\ response.error \in Exceptions
        /\ web_pc = "idle"

(***************************************************************************)
(* Properties of SlideRenderer.render_content_slide (under SpecRender).    *)
(***************************************************************************)
\* the item a paragraph shows, its decoration taken off: the bullet and the
\* space, the quotation marks, or the dash and the space
ItemShown(par) ==
    IF par.box = "number" THEN par.text
    ELSE IF par.box = "quote" THEN SubSeq(par.text, 2, Len(par.text) - 1)
    ELSE SubSeq(par.text, 3, Len(par.text))

ItemsShown(slide) ==
    [i \in 1..Len(slide.paragraphs) |-> ItemShown(slide.paragraphs[i])]

SupportedLayouts == {"bullets", "two_column", "big_number", "quote"}

\* C16: for each of the layouts bullets, two_column, big_number and quote the
\* paragraphs of the rendered slide show every item of the content list
\* exactly once and in order (for two_column: the left column's items
\* followed by the right column's).
C16_EveryItemShownOnceInOrder ==
    (render_ret.op = "render_content_slide"
        /\ render_ret.layout \in SupportedLayouts) =>
        ItemsShown(render_ret.slide) = render_ret.content_items

\* the same for every layout but quote, and for quote up to two items
C16_AllButLongQuotes ==
    (/\ render_ret.op = "render_content_slide"
     /\ render_ret.layout \in SupportedLayouts
     /\ (render_ret.layout = "quote" => Len(render_ret.content_items) <= 2)) =>
        ItemsShown(render_ret.slide) = render_ret.content_items

(***************************************************************************)
(* Properties of the sub-agent path (under SpecAgents and SpecCollect).    *)
(***************************************************************************)
\* C18: no operation sets a job of the spawner to a status other than
\* 'pending' or removes a job, and plan_slides makes no call to the spawn
\* function and returns what _fallback_plan returns for the outline, with or
\* without a spawn function.
C18_NothingIsExecuted ==
    [][/\ \A j \in DOMAIN jobs' : jobs'[j].status = "pending"
       /\ DOMAIN jobs \subseteq DOMAIN jobs'
       /\ plan_ret'.op = "plan_slides" =>
             /\ plan_ret'.spawn_calls = <<>>
             /\ plan_ret'.enhanced_slides = FallbackPlan(plan_text')]_vars

\* both job ids are on record after spawn calls, and plan_slides has
\* returned for a planner that was given a spawn function
C18_Witness ==
    /\ DOMAIN jobs = JobIds
    /\ agent_ret.op = "coordinate_generation"
    /\ plan_ret.op = "plan_slides"
    /\ plan_ret.spawn_agent # None
    /\ plan_ret.enhanced_slides # <<>>

DistinctIndices(job_results) ==
    \A p, q \in 1..Len(job_results) :
        p # q => job_results[p].slide_index # job_results[q].slide_index

\* the generated slides of the results, taken by ascending slide index from
\* the set of results (so the same for every order of supply)
AscendingGenerated(job_results) ==
    LET RECURSIVE Up(_)
        Up(k) ==
            IF k > MaxSlideIndex THEN <<>>
            ELSE (IF \E p \in 1..Len(job_results) :
                        job_results[p] = [slide_index |-> k,
                                          generated_slide |-> [title |-> <<"S", k>>]]
                  THEN <<[title |-> <<"S", k>>]>>
                  ELSE <<>>) \o Up(k + 1)
    IN  Up(0)

\* C20: collect_results returns the generated slides in ascending slide_index
\* order; for results with distinct indices the output is the same for every
\* order of supply; results without a 'generated_slide' add nothing and
\* shift nothing.
C20_CollectedInIndexOrder ==
    agent_ret.op = "collect_results" =>
        /\ \A p, q \in 1..Len(agent_ret.slides) :
              p < q => agent_ret.slides[p].title[2] <= agent_ret.slides[q].title[2]
        /\ Len(agent_ret.slides) =
              Cardinality({p \in 1..Len(agent_ret.job_results) :
                              "generated_slide" \in DOMAIN agent_ret.job_results[p]})
        /\ DistinctIndices(agent_ret.job_results) =>
              agent_ret.slides = AscendingGenerated(agent_ret.job_results)

\* results for slides 2, 0, 1 supplied in that order, the one for slide 0
\* without a generated slide
C20_Witness ==
    /\ agent_ret.op = "collect_results"
    /\ agent_ret.job_results =
          <<[slide_index |-> 2, generated_slide |-> [title |-> <<"S", 2>>]],
            [slide_index |-> 0],
            [slide_index |-> 1, generated_slide |-> [title |-> <<"S", 1>>]]>>
    /\ agent_ret.slides = <<[title |-> <<"S", 1>>], [title |-> <<"S", 2>>]>>

(***************************************************************************)
(* Properties of coordinate_generation (under SpecAgents).                 *)
(***************************************************************************)
\* C22: coordinate_generation over a parser holding n slides with batch size
\* b >= 1 returns exactly n jobs, one per slide, with slide_index 0, 1, ...,
\* n-1 in that order, each job's prompt and output file derived from that
\* index, and a batch count of ceil(n / b).
C22_OneJobPerSlideInOrder ==
    agent_ret.op = "coordinate_generation" =>
        LET n == Len(slides)
            b == agent_ret.batch_size
            all_jobs == agent_ret.result.jobs
        IN  /\ Len(all_jobs) = n
            /\ \A k \in 1..n :
                  /\ all_jobs[k].slide_index = k - 1
                  /\ all_jobs[k].prompt =
                        SlideGenerationPrompt(slides[k], k - 1, n)
                  /\ all_jobs[k].output_file = OutputFile("output", k - 1)
            /\ agent_ret.result.batches = (n + b - 1) \div b
            /\ agent_ret.result.total_slides = n

\* four slides were coordinated in two batches, the second holding one slide
C22_Witness ==
    /\ agent_ret.op = "coordinate_generation"
    /\ Len(slides) = 4
    /\ agent_ret.batch_size = 3
    /\ agent_ret.result.batches = 2
    /\ agent_ret.result.jobs[4].slide_index = 3

(***************************************************************************)
(* Properties of repeated parse_text calls on one parser (under Spec).     *)
(***************************************************************************)
\* C27: parse_text never clears the parser's slide list.  While it runs, the
\* records held at the call stay in front, unchanged and in order; what it
\* returns is those records followed by the records of the new text, and it
\* is the list self.slides itself, the one validate_structure modifies.
C27_ParseTextAppends ==
    /\ pc = "parse_text" =>
          /\ Len(slides) >= Len(entry_slides)
          /\ SubSeq(slides, 1, Len(entry_slides)) = entry_slides
    /\ ret.op = "parse_text" =>
          /\ slides = entry_slides \o ParseText(<<>>, text)
          /\ ret.returned = SlidesRef

\* a second parse_text on a parser whose list validate_structure had given
\* its placeholder title, and the new text added a record
C27_Witness ==
    /\ ret.op = "parse_text"
    /\ Len(entry_slides) = 2
    /\ entry_slides[1] = PlaceholderTitle
    /\ Len(slides) = 3
    /\ slides[3].type = "title"

(***************************************************************************)
(* Properties of the records of one parse (under SpecEdge).                *)
(***************************************************************************)
\* a step of the loop that finalizes nothing: the record that is current
\* after it is the record that was current before it
KeepsCurrentRecord ==
    /\ pc = "parse_text"
    /\ Truthy(current_slide)
    /\ Truthy(current_slide')
    /\ slides' = slides

\* C28: in every list parse_text returns on a fresh parser, every title or
\* section record has an empty content list and every content record has at
\* least one item; a record's type changes at most once, from title or
\* section to content, and never back (a finalized record keeps its type).
C28_ContentShapeAndOneWayCoercion ==
    /\ [](ReturnedFromFreshParse =>
            \A i \in 1..Len(slides) :
                /\ slides[i].type \in {"title", "section", "content"}
                /\ slides[i].type \in {"title", "section"} =>
                      slides[i].content = <<>>
                /\ slides[i].type = "content" => Len(slides[i].content) >= 1)
    /\ [][/\ KeepsCurrentRecord =>
                \/ current_slide'.type = current_slide.type
                \/ /\ current_slide.type \in {"title", "section"}
                   /\ current_slide'.type = "content"
          /\ pc = "parse_text" =>
                \A i \in 1..Len(slides) :
                    /\ Len(slides') >= i
                    /\ slides'[i].type = slides[i].type]_vars

\* '# A', '---', '- a' was parsed: a title that kept its empty content list
\* and a section that a bullet had turned into a content record
C28_Witness ==
    /\ ReturnedFromFreshParse
    /\ Len(slides) = 2
    /\ slides[1].type = "title"
    /\ slides[1].content = <<>>
    /\ slides[2].type = "content"
    /\ slides[2].title = DividerLine
    /\ slides[2].content = <<<<"a">>>>

\* a line that starts a record wherever it stands: a heading or a divider
StartsRecord(l) ==
    IsSpecHeadingLine(Strip(l)) \/ StartsWith(Strip(l), <<"-", "-", "-">>)

\* a bullet line stands before the first heading or divider of the text
LeadingBullet(txt, Bullet(_)) ==
    LET ls == NonEmptyLines(txt)
    IN  \E k \in 1..Len(ls) :
            /\ Bullet(ls[k])
            /\ \A m \in 1..(k - 1) : ~StartsRecord(ls[m])

\* the titles of the records the lines of the text start, in line order
StartedTitles(txt, Bullet(_)) ==
    LET marks == SelectSeq(NonEmptyLines(txt), StartsRecord)
    IN  (IF LeadingBullet(txt, Bullet) THEN <<ContentTitle>> ELSE <<>>)
        \o [i \in 1..Len(marks) |->
               IF IsSpecHeadingLine(Strip(marks[i]))
               THEN HeadingText(Strip(marks[i]))
               ELSE Strip(Replace(Strip(marks[i]), SectionLabel, <<>>))]

\* a bullet line led by a hyphen
IsHyphenBulletLine(l) == IsSpecBulletLine(l) /\ StartsWith(Strip(l), <<"-">>)

\* C29: parse_text on a fresh parser returns as many records as the text has
\* heading lines and divider lines, plus one if a bullet line (hyphen or
\* bullet glyph) stands before the first heading or divider; the records are
\* in the order of the lines that started them, each finalized exactly once.
C29_OneRecordPerStartingLine ==
    ReturnedFromFreshParse =>
        /\ Len(slides) = Len(StartedTitles(text, IsSpecBulletLine))
        /\ \A i \in 1..Len(slides) :
              slides[i].title = StartedTitles(text, IsSpecBulletLine)[i]

\* the same with only hyphen-led lines counted as bullet lines
C29_WithHyphenBullets ==
    ReturnedFromFreshParse =>
        /\ Len(slides) = Len(StartedTitles(text, IsHyphenBulletLine))
        /\ \A i \in 1..Len(slides) :
              slides[i].title = StartedTitles(text, IsHyphenBulletLine)[i]

(***************************************************************************)
(* Properties of the gradient and layout selections of /generate (under    *)
(* SpecWeb).                                                               *)
(***************************************************************************)
\* the gradient a form selects under key, or the default when it has none
Selected(form, key, default) == IF key \in DOMAIN form THEN form[key] ELSE default

\* the handler that keeps generation_status has planned its slides
HasPlanned == request.shell = "status" /\ web_pc \in {"rendering", "saved"}

\* C23: with use_ai on or off, every title record sent to the renderer has
\* the request's title_gradient (default 'ultraviolet') and every section
\* record its section_gradient (default 'coraldawn'); content records get no
\* gradient, and with use_ai off every content record has layout 'bullets'.
C23_SelectionsReachTheRenderer ==
    HasPlanned =>
        \A i \in 1..Len(slides_data) :
            LET slide == slides_data[i]
            IN  /\ slide.type = "title" =>
                      /\ "gradient" \in DOMAIN slide
                      /\ slide.gradient =
                            Selected(request.form, "title_gradient", "ultraviolet")
                /\ slide.type = "section" =>
                      /\ "gradient" \in DOMAIN slide
                      /\ slide.gradient =
                            Selected(request.form, "section_gradient", "coraldawn")
                /\ slide.type = "content" =>
                      /\ "gradient" \notin DOMAIN slide
                      /\ ~request.use_ai => slide.layout = "bullets"

\* a planned deck was saved whose form selected the title gradient only: the
\* section has the default, the title the selection, the content no gradient
C23_Witness ==
    /\ HasPlanned
    /\ web_pc = "saved"
    /\ request.use_ai
    /\ DOMAIN request.form = {"title_gradient"}
    /\ Len(slides_data) = 3
    /\ slides_data[1].type = "content"
    /\ slides_data[2].gradient = "coraldawn"
    /\ slides_data[3].gradient = "midnightsky"

(***************************************************************************)
(* Properties of the generation_status entries (under SpecWeb).            *)
(***************************************************************************)
Planning == [status |-> "planning", progress |-> 10]
Rendering == [status |-> "rendering", progress |-> 50]
Complete == [status |-> "complete", progress |-> 100]

\* the step writes the entry of job j, and writes it as the claim says
\* entries are written: first 'planning', 'rendering' after 'planning', and
\* 'complete' after 'rendering' once the request has saved its deck
WritesInOrder(j) ==
    \/ /\ j \notin DOMAIN generation_status
       /\ generation_status'[j] = Planning
    \/ /\ j \in DOMAIN generation_status
       /\ generation_status[j] = Planning
       /\ generation_status'[j] = Rendering
    \/ /\ j \in DOMAIN generation_status
       /\ generation_status[j] = Rendering
       /\ generation_status'[j] = Complete
       /\ j \in DOMAIN generated
       /\ generated[j].state = "complete"
       /\ generated[j].by = "request"

\* a request starts and draws the id j of an entry that is already recorded
RestartsEntry(j) ==
    /\ request = NoRequest
    /\ request' # NoRequest
    /\ job_id' = j
    /\ j \in DOMAIN generation_status
    /\ generation_status'[j] = Planning

\* what the claim says of failures and of status queries
FailuresAndQueriesWriteNothing ==
    /\ (response' # response /\ response'.code \in {400, 500}) =>
          generation_status' = generation_status
    /\ status_reply' # status_reply =>
          /\ generation_status' = generation_status
          /\ status_reply'.job_id \notin DOMAIN generation_status =>
                status_reply'.body = [status |-> "unknown", progress |-> 0]

\* C26: a job's entry only moves forward through planning (10), rendering
\* (50), complete (100), 'complete' being recorded only after the deck was
\* rendered and saved; no step removes an entry or moves it back, so the
\* entry of a job that failed keeps its last value; a failure records no
\* status and a status query for an unrecorded id answers 'unknown', 0 and
\* creates no entry.
C26_StatusOnlyMovesForward ==
    [][/\ DOMAIN generation_status \subseteq DOMAIN generation_status'
       /\ \A j \in DOMAIN generation_status' :
             \/ /\ j \in DOMAIN generation_status
                /\ generation_status'[j] = generation_status[j]
             \/ WritesInOrder(j)
       /\ FailuresAndQueriesWriteNothing]_vars

\* the same, but for the entry a starting request takes over because it drew
\* an id that is already recorded
C26_ForwardWithinARequest ==
    [][/\ DOMAIN generation_status \subseteq DOMAIN generation_status'
       /\ \A j \in DOMAIN generation_status' :
             \/ /\ j \in DOMAIN generation_status
                /\ generation_status'[j] = generation_status[j]
             \/ WritesInOrder(j)
             \/ RestartsEntry(j)
       /\ FailuresAndQueriesWriteNothing]_vars

(***************************************************************************)
(* Properties of generate_presentation (under SpecGenerate).               *)
(***************************************************************************)
\* the call took the agent branch: its coordinator returned a plan
TookAgentBranch == agent_ret.result # None

\* C21: generate_presentation renders exactly the same slide record sequence
\* to the output path with use_agents true or false, whatever the deck size:
\* the agent branch (use_agents set and more than 5 slides after validation)
\* only produces job metadata and adds, removes, reorders or modifies no
\* slide record before rendering.
C21_SameDeckWithOrWithoutAgents ==
    ret.op = "generate_presentation" =>
        LET other == GeneratePresentation(text, ~ret.use_agents,
                                          [i \in 1..DeckSize(text) |-> "j1"])
        IN  /\ ret.slides_data = other.slides_data
            /\ generated[ret.result_path].deck = other.deck
            /\ ret.slides_data = ValidateStructure(ParseText(<<>>, text)).slides
            /\ TookAgentBranch <=> (ret.use_agents /\ Len(ret.slides_data) > 5)
            /\ TookAgentBranch =>
                  Len(agent_ret.result.jobs) = Len(ret.slides_data)

\* five dividers were given with use_agents set: the placeholder title made
\* it six slides, two batches of jobs were planned and six slides were saved
C21_Witness ==
    /\ ret.op = "generate_presentation"
    /\ ret.use_agents
    /\ Len(Split(text, LF)) = 5
    /\ TookAgentBranch
    /\ agent_ret.result.batches = 2
    /\ Len(generated[ret.result_path].deck) = 6
    /\ ret.slides_data[1] = PlaceholderTitle

(***************************************************************************)
(* Properties of the chat API (under SpecChat).  Every step of SpecChat    *)
(* serves one request, which chat_reply' describes.                        *)
(***************************************************************************)
\* the step serves a request of the given route for a conversation that is
\* in the conversations map
Serves(route) ==
    /\ chat_reply'.route = route
    /\ chat_reply'.asked \in DOMAIN conversations

\* the slide lists of all conversations but c are as they were
OtherSlideListsKept(c) ==
    \A d \in DOMAIN conversations \ {c} :
        conversations'[d].slides = conversations[d].slides

\* C24: a message, tool or slides request that names a conversation id not in
\* the conversations map is answered 404 and changes nothing: no
\* conversation is created, no message log or slide list is modified.
C24_UnknownConversationIs404 ==
    [][(/\ chat_reply'.route \in {"message", "tool", "slides"}
        /\ chat_reply'.asked \notin DOMAIN conversations) =>
          /\ chat_reply'.code = 404
          /\ chat_reply'.error = "Conversation not found"
          /\ conversations' = conversations
          /\ generated' = generated]_vars

\* a tool request for c2 was answered 404 while c1 held a slide and its
\* tool message
C24_Witness ==
    /\ chat_reply # NoResponse
    /\ chat_reply.route = "tool"
    /\ chat_reply.asked = "c2"
    /\ chat_reply.code = 404
    /\ DOMAIN conversations = {"c1"}
    /\ Len(conversations["c1"].slides) = 1
    /\ Len(conversations["c1"].messages) = 1

\* the step serves a create_slide call for a known conversation
ServesCreateSlide == Serves("tool") /\ chat_reply'.tool = "create_slide"

\* exactly one slide was appended at the end of the list of the conversation
AppendedOne(c) ==
    /\ Len(conversations'[c].slides) = Len(conversations[c].slides) + 1
    /\ SubSeq(conversations'[c].slides, 1, Len(conversations[c].slides)) =
          conversations[c].slides

\* C25: a create_slide tool call either returns a tool_result and has
\* appended exactly one slide at the end of its conversation's list, or it
\* fails and the list is unchanged; the slide lists of other conversations
\* are never affected.
C25_CreateSlideIsAtomic ==
    [][ServesCreateSlide =>
          /\ \/ /\ chat_reply'.code = 200
                /\ chat_reply'.body[1].type = "tool_result"
                /\ AppendedOne(chat_reply'.asked)
             \/ /\ chat_reply'.code # 200
                /\ conversations'[chat_reply'.asked].slides =
                      conversations[chat_reply'.asked].slides
          /\ OtherSlideListsKept(chat_reply'.asked)]_vars

\* what holds instead: one slide is appended whether or not the call then
\* fails, and the tool message is stored only when it does not
C25_AppendsThenMayFail ==
    [][ServesCreateSlide =>
          /\ AppendedOne(chat_reply'.asked)
          /\ chat_reply'.code = 200 <=> "type" \in DOMAIN chat_reply'.parameters
          /\ Len(conversations'[chat_reply'.asked].messages) =
                Len(conversations[chat_reply'.asked].messages)
                + (IF chat_reply'.code = 200 THEN 1 ELSE 0)
          /\ OtherSlideListsKept(chat_reply'.asked)]_vars

\* the step serves a render_presentation call that did not fail
ServesRender ==
    /\ Serves("tool")
    /\ chat_reply'.tool = "render_presentation"
    /\ chat_reply'.code = 200

\* the gradient the call selects under key, or the default
CallGradient(key, default) ==
    IF key \in DOMAIN chat_reply'.parameters
    THEN chat_reply'.parameters[key] ELSE default

\* C30: a render_presentation tool call renders every title slide with the
\* call's title_gradient (default 'ultraviolet') and every section slide
\* with its section_gradient (default 'coraldawn'), whatever gradient
\* create_slide gave them; when it renders the conversation's own slides the
\* overwrite is kept in the stored list and shown by later slide queries,
\* while content slides and the number and order of stored slides are kept.
C30_RenderOverwritesGradients ==
    [][/\ ServesRender =>
             LET c == chat_reply'.asked
                 before == conversations[c].slides
                 after == conversations'[c].slides
                 own == "slides" \notin DOMAIN chat_reply'.parameters
                 given == IF own THEN before ELSE chat_reply'.parameters.slides
                 deck == generated'[ChatFilename(c)].deck
             IN  /\ Len(deck) = Len(given)
                 /\ \A i \in 1..Len(given) :
                       /\ given[i].type = "title" =>
                             deck[i].gradient =
                                CallGradient("title_gradient", "ultraviolet")
                       /\ given[i].type = "section" =>
                             deck[i].gradient =
                                CallGradient("section_gradient", "coraldawn")
                 /\ ~own => after = before
                 /\ Len(after) = Len(before)
                 /\ \A i \in 1..Len(before) :
                       /\ after[i].type = before[i].type
                       /\ after[i].title = before[i].title
                       /\ after[i].content = before[i].content
                       /\ after[i].layout = before[i].layout
                       /\ own /\ before[i].type = "title" =>
                             after[i].gradient =
                                CallGradient("title_gradient", "ultraviolet")
                       /\ own /\ before[i].type = "section" =>
                             after[i].gradient =
                                CallGradient("section_gradient", "coraldawn")
                       /\ before[i].type \notin {"title", "section"} =>
                             after[i] = before[i]
                 /\ OtherSlideListsKept(c)
       /\ (Serves("slides") /\ chat_reply'.code = 200) =>
             chat_reply'.slides = conversations[chat_reply'.asked].slides]_vars

\* a slides query shows the title slide that create_slide had given
\* 'midnightsky' with the default gradient of a later render_presentation,
\* next to a content slide that kept the gradient it was created with
C30_Witness ==
    /\ chat_reply # NoResponse
    /\ chat_reply.route = "slides"
    /\ chat_reply.code = 200
    /\ Len(chat_reply.slides) = 2
    /\ chat_reply.slides[1].type = "title"
    /\ chat_reply.slides[1].gradient = "ultraviolet"
    /\ chat_reply.slides[2].type = "content"
    /\ chat_reply.slides[2].gradient = "coraldawn"

====
